---- MODULE Spec2Model ----
(***************************************************************************)
(* State-machine model of the vault's main process: the login rate limiter *)
(* (electron/lib/auth.ts), the session handlers and the local pairing      *)
(* gateway (electron/main.ts).                                             *)
(*                                                                         *)
(* Time: Date.now() is modelled in whole seconds (milliseconds / 1000), so *)
(* every duration of the source appears divided by 1000.                   *)
(***************************************************************************)
EXTENDS Integers, Sequences, FiniteSets, TLC

VARIABLES
    now,                 \* Date.now(), in seconds
    loginAttempts,       \* auth.ts: Map<username, LoginAttempt>
    activeSession,       \* main.ts: let activeSession: UserSession | null
    storeUser,           \* electron-store key 'user' (PersistedSession) or Null
    syncPollingInterval, \* main.ts: the password-sync timer is running
    ipcReply,            \* the value the last ipcMain handler returned
    extensionClients,    \* main.ts: Set<WebSocket> of accepted connections
    pairedClients,       \* main.ts: Map<WebSocket, {paired, sessionKey?}>
    wsRateLimits,        \* main.ts: Map<WebSocket, RateLimit>
    appId,               \* main.ts: let appId (set by initWebSocketServer)
    sent,                \* per connection: the last frame ws.send() put on it
    credentials,         \* rows of the credentials table, in insertion order
    lookupLog,           \* history: per connection, time -> number of calls of
                         \* handleCredentialRequest in the last 60 seconds
    pairHistory,         \* history: per connection, the codes its pair frames
                         \* carried and whether a session key was sent on it
    everClosed,          \* history: connections that were closed or failed
    readyState,          \* per connection: ws.readyState, "OPEN" or "CLOSING"
    hostInfo,            \* os.hostname()-platform-arch-username of this run
    users,               \* rows of the users table
    storeAppId,          \* electron-store key 'appId' (Undefined when absent)
    sqliteSequence,      \* the AUTOINCREMENT counter of the credentials table
    polls,               \* check-pending requests of the password sync that
                         \* are in flight
    connectorUp,         \* the Connector API can be reached from this host
    wire,                \* frames sent on the extension's connection that its
                         \* onmessage handler has not been called with yet
    ext                  \* the browser extension's background script: its
                         \* variables and what it handed to pages

vars == <<now, loginAttempts, activeSession, storeUser, syncPollingInterval,
          ipcReply, extensionClients, pairedClients, wsRateLimits, appId,
          sent, credentials, lookupLog, pairHistory, everClosed, readyState,
          hostInfo, users, storeAppId, sqliteSequence, polls, connectorUp,
          wire, ext>>

sessionVars == <<activeSession, storeUser, syncPollingInterval>>
gatewayVars == <<extensionClients, pairedClients, wsRateLimits, appId, sent,
                 lookupLog, pairHistory, everClosed, readyState, wire>>
envVars == <<hostInfo, users, storeAppId, sqliteSequence, polls, connectorUp,
             ext>>

-----------------------------------------------------------------------------
(* Bounds of the model *)

MaxTime == 1500
MaxTimeWs == 420
MaxConns == 2
MaxCreds == 2
MaxLookups == 22
VaultLookups == 2
MaxTimeSession == 2592001
MaxFailures == 9
MaxTimeMatch == 2
MaxTimeBlock == 900
MaxTimeSweep == 4500
MaxInFlight == 2
MaxTimeExt == 31

(* Steps by which the clock advances *)
LoginSteps == {300}
WsSteps == {60, 300}
SessionSteps == {2592000, 2592001}

-----------------------------------------------------------------------------
(* Values *)

Null == [null |-> TRUE]          \* JavaScript null / a missing store key
Undefined == "<undefined>"       \* a missing optional string field

Max(a, b) == IF a > b THEN a ELSE b
Min(a, b) == IF a < b THEN a ELSE b

RECURSIVE Pow2(_)
Pow2(n) == IF n <= 0 THEN 1 ELSE 2 * Pow2(n - 1)

\* Map.delete(key)
MapDelete(m, k) == [x \in DOMAIN m \ {k} |-> m[x]]
\* Map.set(key, value)
MapSet(m, k, v) == [x \in DOMAIN m \cup {k} |-> IF x = k THEN v ELSE m[x]]

NoKey == 0                       \* sessionKey absent
NoSocket == 0                    \* the extension's  let ws = null
NoTab == << >>                   \* no page is open

\* the variables of the extension's background script when it starts:
\* ws, isPaired, sessionKey, pendingCredentials; tab is the page that is
\* open in the browser, and handed is history: the credentials given to
\* pages, each with the URL of the page
ExtInit ==
    [ws |-> NoSocket, isPaired |-> FALSE, sessionKey |-> NoKey,
     pendingCredentials |-> Null, tab |-> NoTab, handed |-> {}]

-----------------------------------------------------------------------------
(* Password hashing: PBKDF2 is modelled as an injective function of the    *)
(* password and the salt.                                                  *)

hashPassword(password, salt) == <<"pbkdf2", password, salt>>

verifyPassword(password, salt, storedHash) == hashPassword(password, salt) = storedHash

(* The users table. The rows are those of a database file that two signups *)
(* have filled; no handler of the program removes a user row.              *)
Users ==
    { [id |-> 1, username |-> "alice", salt |-> "saltA",
       password_hash |-> hashPassword("pwA", "saltA")],
      [id |-> 2, username |-> "bob", salt |-> "saltB",
       password_hash |-> hashPassword("pwB", "saltB")] }

Usernames == {"alice", "bob", "carol"}     \* carol has no row
Passwords == {"pwA", "pwB", "bad"}

UserRows(username) == {u \in users : u.username = username}

-----------------------------------------------------------------------------
(* auth.ts: rate limiting of login attempts.  blockedUntil: number | null  *)
(* is modelled with 0 for null (both are falsy, and a block that was set   *)
(* is always positive).                                                    *)

LoginMaxAttempts == 5
LoginBlockBase == 300
LoginBlockMax == 1800
LoginWindow == 900
LoginCleanupAge == 3600
SessionTtl == 2592000

\* checkLoginRateLimit that never reports a block
checkLoginRateLimit_NeverBlocked(attempts, username, t) ==
    [isBlocked |-> FALSE, waitTime |-> 0,
     attemptsRemaining |-> IF username \in DOMAIN attempts
                           THEN Max(0, LoginMaxAttempts - attempts[username].count)
                           ELSE LoginMaxAttempts,
     attempts |-> attempts]

\* checkLoginRateLimit without the reset of a window that has passed
checkLoginRateLimit_NoWindowReset(attempts, username, t) ==
    IF username \notin DOMAIN attempts
    THEN [isBlocked |-> FALSE, waitTime |-> 0,
          attemptsRemaining |-> LoginMaxAttempts, attempts |-> attempts]
    ELSE LET attempt == attempts[username] IN
         IF attempt.blockedUntil # 0 /\ attempt.blockedUntil > t
         THEN [isBlocked |-> TRUE, waitTime |-> attempt.blockedUntil - t,
               attemptsRemaining |-> 0, attempts |-> attempts]
         ELSE [isBlocked |-> FALSE, waitTime |-> 0,
               attemptsRemaining |-> Max(0, LoginMaxAttempts - attempt.count),
               attempts |-> attempts]

\* checkLoginRateLimit: the returned object, and the map after the call
\* (the call deletes an entry whose window has passed).
checkLoginRateLimit(attempts, username, t) ==
    IF username \notin DOMAIN attempts
    THEN [isBlocked |-> FALSE, waitTime |-> 0,
          attemptsRemaining |-> LoginMaxAttempts, attempts |-> attempts]
    ELSE LET attempt == attempts[username] IN
         IF attempt.blockedUntil # 0 /\ attempt.blockedUntil > t
         THEN [isBlocked |-> TRUE, waitTime |-> attempt.blockedUntil - t,
               attemptsRemaining |-> 0, attempts |-> attempts]
         ELSE IF t - attempt.firstAttempt > LoginWindow
         THEN [isBlocked |-> FALSE, waitTime |-> 0,
               attemptsRemaining |-> LoginMaxAttempts,
               attempts |-> MapDelete(attempts, username)]
         ELSE [isBlocked |-> FALSE, waitTime |-> 0,
               attemptsRemaining |-> Max(0, LoginMaxAttempts - attempt.count),
               attempts |-> attempts]

\* recordFailedLogin with the block set one failure late (count > 5)
recordFailedLogin_OffByOne(attempts, username, t) ==
    IF username \notin DOMAIN attempts
    THEN MapSet(attempts, username,
                [count |-> 1, firstAttempt |-> t, blockedUntil |-> 0])
    ELSE LET attempt == attempts[username]
             count == attempt.count + 1
             blockDuration ==
                 Min(LoginBlockMax, LoginBlockBase * Pow2(count - LoginMaxAttempts))
         IN MapSet(attempts, username,
                   [count |-> count,
                    firstAttempt |-> attempt.firstAttempt,
                    blockedUntil |-> IF count > LoginMaxAttempts
                                     THEN t + blockDuration
                                     ELSE attempt.blockedUntil])

\* recordFailedLogin with the 30-minute cap left out
recordFailedLogin_NoCap(attempts, username, t) ==
    IF username \notin DOMAIN attempts
    THEN MapSet(attempts, username,
                [count |-> 1, firstAttempt |-> t, blockedUntil |-> 0])
    ELSE LET attempt == attempts[username]
             count == attempt.count + 1
             blockDuration == LoginBlockBase * Pow2(count - LoginMaxAttempts)
         IN MapSet(attempts, username,
                   [count |-> count,
                    firstAttempt |-> attempt.firstAttempt,
                    blockedUntil |-> IF count >= LoginMaxAttempts
                                     THEN t + blockDuration
                                     ELSE attempt.blockedUntil])

\* recordFailedLogin: the map after the call
recordFailedLogin(attempts, username, t) ==
    IF username \notin DOMAIN attempts
    THEN MapSet(attempts, username,
                [count |-> 1, firstAttempt |-> t, blockedUntil |-> 0])
    ELSE LET attempt == attempts[username]
             count == attempt.count + 1
             blockDuration ==
                 Min(LoginBlockMax, LoginBlockBase * Pow2(count - LoginMaxAttempts))
         IN MapSet(attempts, username,
                   [count |-> count,
                    firstAttempt |-> attempt.firstAttempt,
                    blockedUntil |-> IF count >= LoginMaxAttempts
                                     THEN t + blockDuration
                                     ELSE attempt.blockedUntil])

\* clearLoginAttempts, with the record left in the map
clearLoginAttempts_Keep(attempts, username) == attempts

\* clearLoginAttempts
clearLoginAttempts(attempts, username) == MapDelete(attempts, username)

\* cleanupLoginAttempts that drops every record
cleanupLoginAttempts_All(attempts, t) == << >>

\* cleanupLoginAttempts: the hourly sweep
cleanupLoginAttempts(attempts, t) ==
    [u \in {x \in DOMAIN attempts : ~(t - attempts[x].firstAttempt > LoginCleanupAge)}
        |-> attempts[u]]

-----------------------------------------------------------------------------
(* Field encryption (scrypt key derivation, AES-256-GCM).  The key is an   *)
(* injective function of password and salt; a ciphertext records the key   *)
(* and the plaintext it was made from, and its third component (the hex of *)
(* the encrypted bytes) is empty exactly when the plaintext is empty.      *)

deriveEncryptionKey(masterPassword, salt) == <<"scrypt", masterPassword, salt>>

encryptPassword(plaintext, encryptionKey) ==
    [key |-> encryptionKey, plaintext |-> plaintext]

IvBytes == 16
AuthTagBytes == 16

\* the catch block with one message for every Error caught
rethrown_OneMessage(message) == "Failed to decrypt password"

\* the catch block of decryptPassword: the Error it throws for the Error
\* message caught
rethrown(message) ==
    IF message = "Unsupported state or unable to authenticate data"
    THEN "Decryption failed: Wrong password or corrupted data"
    ELSE "Failed to decrypt password"

\* decryptPassword on the text "iv:tag:encrypted".  parts holds the number
\* of bytes each colon-separated component is the hex of (0 for an empty
\* component); authentic says whether the GCM tag verifies under the key.
\* The result tells whether it returned, the message of the Error thrown,
\* and whether decryption was attempted (createDecipheriv was reached).
decryptParts(parts, authentic) ==
    IF Len(parts) # 3
    THEN [ok |-> FALSE, error |-> rethrown("Invalid encrypted data format"),
          attempted |-> FALSE]
    ELSE IF parts[1] = 0 \/ parts[2] = 0 \/ parts[3] = 0
    THEN [ok |-> FALSE,
          error |-> rethrown("Invalid encrypted data: missing components"),
          attempted |-> FALSE]
    ELSE IF parts[1] # IvBytes
    THEN [ok |-> FALSE, error |-> rethrown("Invalid IV length"),
          attempted |-> FALSE]
    ELSE IF parts[2] # AuthTagBytes
    THEN [ok |-> FALSE, error |-> rethrown("Invalid auth tag length"),
          attempted |-> FALSE]
    ELSE IF ~authentic
    THEN [ok |-> FALSE,
          error |-> rethrown("Unsupported state or unable to authenticate data"),
          attempted |-> TRUE]
    ELSE [ok |-> TRUE, error |-> "", attempted |-> TRUE]

\* the components of the text encryptPassword returned: a 16-byte iv, a
\* 16-byte tag, and the encrypted bytes, none for the empty plaintext
partsOf(encryptedData) ==
    <<IvBytes, AuthTagBytes, IF encryptedData.plaintext = "" THEN 0 ELSE 1>>

\* decryptPassword: [ok |-> TRUE, value |-> plaintext], or the Error thrown
decryptPassword(encryptedData, encryptionKey) ==
    LET result == decryptParts(partsOf(encryptedData),
                               encryptedData.key = encryptionKey)
    IN IF result.ok
       THEN [ok |-> TRUE, value |-> encryptedData.plaintext]
       ELSE [ok |-> FALSE, error |-> result.error]

\* the empty string '' where a ciphertext may stand (a column of a row)
EmptyText == [text |-> ""]

\* XOR with the bytes of the session key, then base64
encryptForTransport(data, sessionKey) == [xor |-> sessionKey, data |-> data]

-----------------------------------------------------------------------------
(* main.ts: the password sync with the Connector API.  A check-pending     *)
(* request in flight is the set of emails it carries; its userId is        *)
(* history, the user whose session sent it.                                *)

E_Team == "team@corp.com"
E_TeamCaps == "Team@Corp.com"

\* String.prototype.toLowerCase on the usernames of the model
toLowerCase(s) == IF s = E_TeamCaps THEN E_Team ELSE s

vaultLocked(session) ==
    session = Null \/ session.masterPassword \in {Undefined, ""}

\* rows of the session user whose username decrypts under the session key
readableRows(session, rows) ==
    LET encryptionKey == deriveEncryptionKey(session.masterPassword, session.salt)
    IN {i \in 1..Len(rows) :
           /\ rows[i].user_id = session.userId
           /\ rows[i].username # EmptyText
           /\ decryptPassword(rows[i].username, encryptionKey).ok}

\* getAllUserEmails(): the decrypted usernames of the session user's rows
getAllUserEmails(session, rows) ==
    IF vaultLocked(session) THEN {}
    ELSE {rows[i].username.plaintext : i \in readableRows(session, rows)}

\* pollForPendingPasswordChanges() up to its first await: the requests in
\* flight after the call.  A request to a Connector that cannot be reached
\* is rejected and the poll ends in its catch block.
pollForPendingPasswordChanges(session, rows, inFlight, up) ==
    IF vaultLocked(session) \/ getAllUserEmails(session, rows) = {} \/ ~up
    THEN inFlight
    ELSE inFlight \cup {[emails |-> getAllUserEmails(session, rows),
                         userId |-> session.userId]}

\* startPasswordSyncPolling(): nothing when the timer runs, otherwise the
\* timer is set and one poll is made at once
startPasswordSyncPolling(running, session, rows, inFlight, up) ==
    IF running THEN inFlight
    ELSE pollForPendingPasswordChanges(session, rows, inFlight, up)

\* updateCredentialPassword(email, newPassword, source): the table after
\* the call
updateCredentialPassword(rows, session, email, newPassword) ==
    IF vaultLocked(session) THEN rows
    ELSE LET encryptionKey == deriveEncryptionKey(session.masterPassword, session.salt)
             matched == {i \in readableRows(session, rows) :
                            toLowerCase(rows[i].username.plaintext) = toLowerCase(email)}
         IN IF matched = {} THEN rows
            ELSE LET first == CHOOSE i \in matched : \A j \in matched : i <= j
                 IN [rows EXCEPT ![first].password =
                                     encryptPassword(newPassword, encryptionKey)]

\* the loop over data.pending_changes
RECURSIVE processChanges(_, _, _)
processChanges(rows, session, changes) ==
    IF changes = << >> THEN rows
    ELSE processChanges(updateCredentialPassword(rows, session,
                                                 Head(changes).email,
                                                 Head(changes).password),
                        session, Tail(changes))

\* what the Connector may answer to a request: no pending change, or one
\* change for one of the emails asked for
PendingChanges(poll) ==
    {<< >>} \cup {<<[email |-> e, password |-> "new"]>> : e \in poll.emails}

\* the callback of setInterval(pollForPendingPasswordChanges, 30000)
PollTick ==
    /\ syncPollingInterval
    /\ polls' = pollForPendingPasswordChanges(activeSession, credentials, polls,
                                              connectorUp)
    /\ UNCHANGED <<now, loginAttempts, sessionVars, ipcReply, gatewayVars,
                   credentials, hostInfo, users, storeAppId, sqliteSequence,
                   connectorUp, ext>>

\* the answer to a request in flight arrives and
\* pollForPendingPasswordChanges goes on after its await
PollResponse(poll, changes) ==
    /\ poll \in polls
    /\ polls' = polls \ {poll}
    /\ credentials' = processChanges(credentials, activeSession, changes)
    /\ UNCHANGED <<now, loginAttempts, sessionVars, ipcReply, gatewayVars,
                   hostInfo, users, storeAppId, sqliteSequence, connectorUp, ext>>

-----------------------------------------------------------------------------
(* main.ts: session handlers *)

\* the first 32 hex digits of SHA-256 of the host description, modelled as
\* an injective function of it
getDeviceFingerprint == <<"sha256", hostInfo>>

\* ipcMain.handle('auth:login')
\* the value the auth:login handler returns for a call at time t with the
\* attempts map as it is
loginResponse(attempts, username, password, t) ==
    LET rateLimit == checkLoginRateLimit(attempts, username, t)
        rows == UserRows(username)
    IN
    IF rateLimit.isBlocked
    THEN [channel |-> "auth:login", username |-> username,
          success |-> FALSE, error |-> "Too many failed login attempts",
          waitTime |-> rateLimit.waitTime]
    ELSE IF rows = {}
    THEN [channel |-> "auth:login", username |-> username,
          success |-> FALSE, error |-> "Invalid username or password",
          attemptsRemaining |-> Max(0, 5 - (rateLimit.attemptsRemaining - 1))]
    ELSE LET user == CHOOSE u \in rows : TRUE IN
         IF ~verifyPassword(password, user.salt, user.password_hash)
         THEN LET recorded == recordFailedLogin(rateLimit.attempts, username, t)
                  updatedLimit == checkLoginRateLimit(recorded, username, t)
              IN [channel |-> "auth:login", username |-> username,
                  success |-> FALSE,
                  error |-> "Invalid username or password",
                  attemptsRemaining |-> updatedLimit.attemptsRemaining]
         ELSE [channel |-> "auth:login", username |-> username,
               success |-> TRUE, userId |-> user.id]

Login(username, password) ==
    LET rateLimit == checkLoginRateLimit(loginAttempts, username, now)
        rows == UserRows(username)
    IN
    /\ ipcReply' = loginResponse(loginAttempts, username, password, now)
    /\ IF rateLimit.isBlocked
       THEN /\ loginAttempts' = rateLimit.attempts
            /\ UNCHANGED <<now, sessionVars, gatewayVars, credentials, envVars>>
       ELSE IF rows = {}
       THEN /\ loginAttempts' = recordFailedLogin(rateLimit.attempts, username, now)
            /\ UNCHANGED <<now, sessionVars, gatewayVars, credentials, envVars>>
       ELSE LET user == CHOOSE u \in rows : TRUE IN
            IF ~verifyPassword(password, user.salt, user.password_hash)
            THEN LET recorded == recordFailedLogin(rateLimit.attempts, username, now)
                     updatedLimit == checkLoginRateLimit(recorded, username, now)
                 IN /\ loginAttempts' = updatedLimit.attempts
                    /\ UNCHANGED <<now, sessionVars, gatewayVars, credentials,
                                   envVars>>
            ELSE /\ loginAttempts' = clearLoginAttempts(rateLimit.attempts, username)
                 /\ activeSession' = [userId |-> user.id, username |-> user.username,
                                      salt |-> user.salt, masterPassword |-> password]
                 /\ storeUser' = [id |-> user.id, username |-> user.username,
                                  salt |-> user.salt, expiresAt |-> now + SessionTtl,
                                  deviceId |-> getDeviceFingerprint]
                 /\ syncPollingInterval' = TRUE
                 /\ polls' = startPasswordSyncPolling(syncPollingInterval,
                                                      activeSession', credentials,
                                                      polls, connectorUp)
                 /\ UNCHANGED <<now, gatewayVars, credentials, hostInfo, users,
                                storeAppId, sqliteSequence, connectorUp, ext>>

\* a call of the exported recordFailedLogin(username)
RecordFailure(username) ==
    /\ username \in DOMAIN loginAttempts => loginAttempts[username].count < MaxFailures
    /\ loginAttempts' = recordFailedLogin(loginAttempts, username, now)
    /\ UNCHANGED <<now, sessionVars, ipcReply, gatewayVars, credentials, envVars>>

\* setInterval(cleanupLoginAttempts, 60 * 60 * 1000)
CleanupLoginAttempts ==
    /\ loginAttempts' = cleanupLoginAttempts(loginAttempts, now)
    /\ UNCHANGED <<now, sessionVars, ipcReply, gatewayVars, credentials, envVars>>

\* The clock advances by d seconds.
AdvanceTime(d, limit) ==
    /\ now + d <= limit
    /\ now' = now + d
    /\ lookupLog' = [c \in DOMAIN lookupLog |->
                        [t \in {x \in DOMAIN lookupLog[c] : now + d - x <= 60}
                            |-> lookupLog[c][t]]]
    /\ UNCHANGED <<loginAttempts, sessionVars, ipcReply, extensionClients,
                   pairedClients, wsRateLimits, appId, sent, credentials, envVars,
                   pairHistory, everClosed, readyState, wire>>


\* ipcMain.handle('auth:logout'), with store.delete('user') left out
Logout_KeepsRecord ==
    /\ activeSession' = Null
    /\ syncPollingInterval' = FALSE
    /\ ipcReply' = [channel |-> "auth:logout", success |-> TRUE]
    /\ UNCHANGED <<now, loginAttempts, storeUser, gatewayVars, credentials, envVars>>

\* ipcMain.handle('auth:logout')
Logout ==
    /\ activeSession' = Null
    /\ storeUser' = Null
    /\ syncPollingInterval' = FALSE
    /\ ipcReply' = [channel |-> "auth:logout", success |-> TRUE]
    /\ UNCHANGED <<now, loginAttempts, gatewayVars, credentials, envVars>>

\* mainWindow.on('close'), with the whole session dropped
WindowClose_ClearsSession ==
    /\ activeSession' = Null
    /\ UNCHANGED <<now, loginAttempts, storeUser, syncPollingInterval, ipcReply,
                   gatewayVars, credentials, envVars>>

\* mainWindow.on('close'): the master password leaves the session
WindowClose ==
    /\ activeSession' = IF activeSession = Null THEN Null
                        ELSE [activeSession EXCEPT !.masterPassword = Undefined]
    /\ UNCHANGED <<now, loginAttempts, storeUser, syncPollingInterval, ipcReply,
                   gatewayVars, credentials, envVars>>

-----------------------------------------------------------------------------
(* Strings that are searched or parsed are sequences of characters. *)

S_SchemeSep == <<":", "/", "/">>
S_Https == <<"h", "t", "t", "p", "s", ":", "/", "/">>
U_SiteMail == <<"h", "t", "t", "p", "s", ":", "/", "/", "m", "a", "i", "l", ".", "e", "x", "a", "m", "p", "l", "e", ".", "c", "o", "m", "/", "l", "o", "g", "i", "n">>
U_SiteBank == <<"h", "t", "t", "p", "s", ":", "/", "/", "b", "a", "n", "k", ".", "c", "o", "m">>
U_ReqExample == <<"e", "x", "a", "m", "p", "l", "e", ".", "c", "o", "m", "/", "i", "n", "b", "o", "x">>
U_ReqNotExample == <<"n", "o", "t", "e", "x", "a", "m", "p", "l", "e", ".", "c", "o", "m">>
U_ReqBank == <<"h", "t", "t", "p", "s", ":", "/", "/", "b", "a", "n", "k", ".", "c", "o", "m">>
U_ReqFile == <<"f", "i", "l", "e", ":", "/", "/", "/", "x">>
U_ReqEmpty == << >>
U_ReqSpace == <<"a", " ", "b">>
U_ReqUnderscore == <<"b", "_", "n", "k", ".", "c", "o", "m">>
U_ReqCaps == <<"B", "a", "n", "K", ".", "c", "o", "m">>
\* a request-credentials frame that carries no url string
NoUrl == <<"<no url>">>

Letters == {"a", "b", "c", "e", "f", "g", "h", "i", "k", "l", "m", "n", "o", "p",
            "s", "t", "x"}
SpecialSchemes == { <<"h", "t", "t", "p">>, <<"h", "t", "t", "p", "s">>,
                    <<"w", "s">>, <<"w", "s", "s">>, <<"f", "t", "p">>,
                    <<"f", "i", "l", "e">> }

\* String.prototype.indexOf, 1-based; 0 when sub does not occur
IndexOf(s, sub) ==
    LET hits == {i \in 1..(Len(s) - Len(sub) + 1) :
                    SubSeq(s, i, i + Len(sub) - 1) = sub}
    IN IF hits = {} THEN 0 ELSE CHOOSE i \in hits : \A j \in hits : i <= j

\* String.prototype.includes
Includes(s, sub) == IndexOf(s, sub) # 0

\* ASCII lower case of one character (the capitals that occur in the inputs)
Fold(c) == CASE c = "B" -> "b"
             [] c = "K" -> "k"
             [] OTHER -> c

\* SQL  s LIKE '%' || sub || '%'  as SQLite evaluates it: "_" in the pattern
\* stands for any one character and ASCII letters match without regard to
\* case.  (A "%" cannot occur in a hostname, and no search string here has one.)
Like(s, sub) ==
    \E i \in 1..(Len(s) - Len(sub) + 1) :
        \A j \in 1..Len(sub) :
            sub[j] = "_" \/ Fold(sub[j]) = Fold(s[i + j - 1])

\* the prefix of s before the first character that is in stops
TakeUntil(s, stops) ==
    LET hits == {i \in 1..Len(s) : s[i] \in stops}
    IN IF hits = {} THEN s
       ELSE SubSeq(s, 1, (CHOOSE i \in hits : \A j \in hits : i <= j) - 1)

\* s without its leading "/" characters
RECURSIVE SkipSlashes(_)
SkipSlashes(s) == IF Len(s) > 0 /\ s[1] = "/" THEN SkipSlashes(Tail(s)) ELSE s

\* host of an authority: after the last "@", before the port's ":"
HostOf(authority) ==
    LET ats == {i \in 1..Len(authority) : authority[i] = "@"}
        afterUser == IF ats = {} THEN authority
                     ELSE SubSeq(authority,
                                 (CHOOSE i \in ats : \A j \in ats : i >= j) + 1,
                                 Len(authority))
    IN TakeUntil(afterUser, {":"})

\* new URL(text).hostname: [ok |-> TRUE, hostname |-> h], or ok FALSE when the
\* constructor throws (no scheme, a special scheme without host, a host with
\* a forbidden character)
urlHostname(text) ==
    LET colon == IndexOf(text, <<":">>)
        scheme == SubSeq(text, 1, colon - 1)
        rest == SubSeq(text, colon + 1, Len(text))
        special == scheme \in SpecialSchemes
        isFile == scheme = <<"f", "i", "l", "e">>
        hasAuthority == Len(rest) >= 2 /\ rest[1] = "/" /\ rest[2] = "/"
        afterSlashes == IF special /\ ~isFile THEN SkipSlashes(rest)
                        ELSE IF hasAuthority THEN SubSeq(rest, 3, Len(rest))
                        ELSE << >>
        authority == TakeUntil(afterSlashes, {"/", "?", "#"})
        rawHost == IF (special /\ ~isFile) \/ hasAuthority THEN HostOf(authority)
                   ELSE << >>
        host == [i \in 1..Len(rawHost) |-> Fold(rawHost[i])]
    IN IF colon = 0 \/ scheme = << >> \/ \E i \in 1..Len(scheme) : scheme[i] \notin Letters
       THEN [ok |-> FALSE]
       ELSE IF special /\ ~isFile /\ host = << >> THEN [ok |-> FALSE]
       ELSE IF \E i \in 1..Len(host) : host[i] = " " THEN [ok |-> FALSE]
       ELSE [ok |-> TRUE, hostname |-> host]

\* handleCredentialRequest, lines 377-388: the hostname of the request URL
requestHostname(requestUrl) ==
    urlHostname(IF Includes(requestUrl, S_SchemeSep) THEN requestUrl
                ELSE S_Https \o requestUrl)

-----------------------------------------------------------------------------
(* main.ts: credentials table and its IPC handlers *)

SiteLinks == {U_SiteMail, U_SiteBank}

\* ipcMain.handle('credentials:create')
CreateCredential(masterPassword, siteLink, username, password) ==
    IF activeSession = Null
    THEN /\ ipcReply' = [channel |-> "credentials:create", success |-> FALSE,
                         error |-> "Not authenticated"]
         /\ UNCHANGED <<now, loginAttempts, sessionVars, gatewayVars, credentials,
                        envVars>>
    ELSE LET encryptionKey == deriveEncryptionKey(masterPassword, activeSession.salt)
             encryptedPassword == encryptPassword(password, encryptionKey)
             encryptedUsername == IF username # ""
                                  THEN encryptPassword(username, encryptionKey)
                                  ELSE EmptyText
         IN /\ sqliteSequence < MaxCreds
            /\ credentials' = Append(credentials,
                   [id |-> sqliteSequence + 1, user_id |-> activeSession.userId,
                    site_link |-> siteLink, username |-> encryptedUsername,
                    password |-> encryptedPassword, created_at |-> now])
            /\ sqliteSequence' = sqliteSequence + 1
            /\ ipcReply' = [channel |-> "credentials:create", success |-> TRUE,
                            id |-> sqliteSequence + 1]
            /\ UNCHANGED <<now, loginAttempts, sessionVars, gatewayVars, hostInfo,
                           users, storeAppId, polls, connectorUp, ext>>

-----------------------------------------------------------------------------
(* main.ts: the pairing gateway *)

WsWindow == 60
WsBlock == 300
MaxPairAttempts == 5
MaxCredentialRequests == 20

AppId64 == "APPID-64-HEX"
AppId64b == "APPID-64-HEX-2"
Legacy12 == "APPID-12-HEX"
OtherStored == "APPID-OTHER"
NoAppId == ""                    \* let appId = ''

\* storedAppId.length
idLength(id) == CASE id \in {AppId64, AppId64b} -> 64
                  [] id = Legacy12 -> 12
                  [] id = OtherStored -> 32
                  [] OTHER -> 0

\* values that store.get('appId') may give at a start
StoredIds == {Undefined, Legacy12, OtherStored, AppId64}
\* values that (randomUUID() + randomUUID()) may give
FreshIds == {AppId64, AppId64b}

\* getOrCreateAppId without the migration of a 12-character value
getOrCreateAppId_NoMigration(storedAppId, fresh) ==
    IF storedAppId # Undefined /\ idLength(storedAppId) \in {12, 64}
    THEN [appId |-> storedAppId, store |-> storedAppId, written |-> FALSE]
    ELSE [appId |-> fresh, store |-> fresh, written |-> TRUE]

\* getOrCreateAppId that generates a new value on every call
getOrCreateAppId_AlwaysNew(storedAppId, fresh) ==
    [appId |-> fresh, store |-> fresh, written |-> TRUE]

\* getOrCreateAppId: the value it returns, the store after it, and whether
\* it called store.set
getOrCreateAppId(storedAppId, fresh) ==
    IF storedAppId # Undefined /\ idLength(storedAppId) = 12
    THEN [appId |-> fresh, store |-> fresh, written |-> TRUE]
    ELSE IF storedAppId # Undefined /\ idLength(storedAppId) = 64
    THEN [appId |-> storedAppId, store |-> storedAppId, written |-> FALSE]
    ELSE [appId |-> fresh, store |-> fresh, written |-> TRUE]
WrongCode == "WRONG-CODE"
Codes == {AppId64, WrongCode}

ConnIds == 1..MaxConns
SessionKeys == 1..(MaxConns + MaxInFlight + 2)
NoFrame == Null

\* generateSessionKey that returns no key
generateSessionKey_None == NoKey

\* the session keys that frame carries
keysOf(frame) ==
    IF frame.type = "pair-success" THEN {frame.sessionKey}
    ELSE IF "encrypted" \in DOMAIN frame /\ frame.encrypted
    THEN {frame.username.xor, frame.password.xor}
    ELSE {}

\* generateSessionKey: two random UUIDs; modelled as a key that no
\* connection, no extension and no frame in flight holds at the moment
generateSessionKey ==
    LET used == {pairedClients[c].sessionKey : c \in DOMAIN pairedClients}
                    \cup {ext.sessionKey}
                    \cup UNION {keysOf(wire[i]) : i \in 1..Len(wire)}
        free == SessionKeys \ used
    IN CHOOSE k \in free : \A j \in free : k <= j

ErrorWait(seconds) ==
    [type |-> "error", message |-> "Too many attempts. Wait", seconds |-> seconds]
ErrorBlocked(action) ==
    [type |-> "error", message |-> "Too many attempts. Blocked for 5 minutes",
     action |-> action]
ErrorNotPaired == [type |-> "error", message |-> "Not paired"]
CredentialsError(error) ==
    [type |-> "credentials-response", success |-> FALSE, error |-> error]

\* checkWsRateLimit that starts the block again at every attempt made
\* while the connection is blocked
checkWsRateLimit_ExtendsBlock(limits, ws, action, t) ==
    LET limit == IF ws \in DOMAIN limits THEN limits[ws]
                 ELSE [attempts |-> 0, lastAttempt |-> t, blockedUntil |-> 0]
        counted == (IF t - limit.lastAttempt > WsWindow THEN 0 ELSE limit.attempts) + 1
        maxAttempts == IF action = "pair" THEN MaxPairAttempts
                       ELSE MaxCredentialRequests
    IN IF limit.blockedUntil > t
       THEN [ok |-> FALSE,
             limits |-> MapSet(limits, ws, [limit EXCEPT !.blockedUntil = t + WsBlock]),
             frame |-> ErrorWait(limit.blockedUntil - t)]
       ELSE IF counted > maxAttempts
       THEN [ok |-> FALSE,
             limits |-> MapSet(limits, ws, [attempts |-> counted, lastAttempt |-> t,
                                            blockedUntil |-> t + WsBlock]),
             frame |-> ErrorBlocked(action)]
       ELSE [ok |-> TRUE,
             limits |-> MapSet(limits, ws, [attempts |-> counted, lastAttempt |-> t,
                                            blockedUntil |-> limit.blockedUntil]),
             frame |-> NoFrame]

\* checkWsRateLimit with the limit reached one attempt early (>= for >)
checkWsRateLimit_Ge(limits, ws, action, t) ==
    LET limit == IF ws \in DOMAIN limits THEN limits[ws]
                 ELSE [attempts |-> 0, lastAttempt |-> t, blockedUntil |-> 0]
        counted == (IF t - limit.lastAttempt > WsWindow THEN 0 ELSE limit.attempts) + 1
        maxAttempts == IF action = "pair" THEN MaxPairAttempts
                       ELSE MaxCredentialRequests
    IN IF limit.blockedUntil > t
       THEN [ok |-> FALSE, limits |-> limits,
             frame |-> ErrorWait(limit.blockedUntil - t)]
       ELSE IF counted >= maxAttempts
       THEN [ok |-> FALSE,
             limits |-> MapSet(limits, ws, [attempts |-> counted, lastAttempt |-> t,
                                            blockedUntil |-> t + WsBlock]),
             frame |-> ErrorBlocked(action)]
       ELSE [ok |-> TRUE,
             limits |-> MapSet(limits, ws, [attempts |-> counted, lastAttempt |-> t,
                                            blockedUntil |-> limit.blockedUntil]),
             frame |-> NoFrame]

\* checkWsRateLimit without the reset of the counter after a minute
checkWsRateLimit_NoReset(limits, ws, action, t) ==
    LET limit == IF ws \in DOMAIN limits THEN limits[ws]
                 ELSE [attempts |-> 0, lastAttempt |-> t, blockedUntil |-> 0]
        counted == limit.attempts + 1
        maxAttempts == IF action = "pair" THEN MaxPairAttempts
                       ELSE MaxCredentialRequests
    IN IF limit.blockedUntil > t
       THEN [ok |-> FALSE, limits |-> limits,
             frame |-> ErrorWait(limit.blockedUntil - t)]
       ELSE IF counted > maxAttempts
       THEN [ok |-> FALSE,
             limits |-> MapSet(limits, ws, [attempts |-> counted, lastAttempt |-> t,
                                            blockedUntil |-> t + WsBlock]),
             frame |-> ErrorBlocked(action)]
       ELSE [ok |-> TRUE,
             limits |-> MapSet(limits, ws, [attempts |-> counted, lastAttempt |-> t,
                                            blockedUntil |-> limit.blockedUntil]),
             frame |-> NoFrame]

\* checkWsRateLimit: the boolean returned, the map after the call and the
\* frame the call sends (NoFrame when it sends none)
checkWsRateLimit(limits, ws, action, t) ==
    LET limit == IF ws \in DOMAIN limits THEN limits[ws]
                 ELSE [attempts |-> 0, lastAttempt |-> t, blockedUntil |-> 0]
        counted == (IF t - limit.lastAttempt > WsWindow THEN 0 ELSE limit.attempts) + 1
        maxAttempts == IF action = "pair" THEN MaxPairAttempts
                       ELSE MaxCredentialRequests
    IN IF limit.blockedUntil > t
       THEN [ok |-> FALSE, limits |-> limits,
             frame |-> ErrorWait(limit.blockedUntil - t)]
       ELSE IF counted > maxAttempts
       THEN [ok |-> FALSE,
             limits |-> MapSet(limits, ws, [attempts |-> counted, lastAttempt |-> t,
                                            blockedUntil |-> t + WsBlock]),
             frame |-> ErrorBlocked(action)]
       ELSE [ok |-> TRUE,
             limits |-> MapSet(limits, ws, [attempts |-> counted, lastAttempt |-> t,
                                            blockedUntil |-> limit.blockedUntil]),
             frame |-> NoFrame]

\* handleCredentialRequest that answers from secrets read before the lock:
\* the session is looked at for the user only
handleCredentialRequest_Stale(ws, requestUrl) ==
    IF activeSession = Null
    THEN {CredentialsError("Not authenticated")}
    ELSE LET found == {i \in 1..Len(credentials) :
                          credentials[i].user_id = activeSession.userId}
         IN IF found = {}
            THEN {CredentialsError("No credentials found for this site")}
            ELSE {[type |-> "credentials-response", success |-> TRUE,
                   url |-> requestUrl,
                   username |-> encryptForTransport(
                                    IF credentials[i].username = EmptyText THEN ""
                                    ELSE credentials[i].username.plaintext,
                                    pairedClients[ws].sessionKey),
                   password |-> encryptForTransport(
                                    credentials[i].password.plaintext,
                                    pairedClients[ws].sessionKey),
                   encrypted |-> TRUE] : i \in found}

\* handleCredentialRequest: the frames the call may send (more than one only
\* when several matching rows share the newest created_at)
handleCredentialRequest(ws, requestUrl) ==
    IF activeSession = Null
    THEN {CredentialsError("Not authenticated")}
    ELSE IF activeSession.masterPassword \in {Undefined, ""}
    THEN {CredentialsError("Vault locked")}
    ELSE LET parsed == IF requestUrl = NoUrl THEN [ok |-> FALSE]
                       ELSE requestHostname(requestUrl)
         IN
         IF ~parsed.ok
         THEN {CredentialsError("Invalid URL")}
         ELSE LET found == {i \in 1..Len(credentials) :
                               /\ credentials[i].user_id = activeSession.userId
                               /\ Like(credentials[i].site_link, parsed.hostname)}
                  first == {i \in found : \A j \in found :
                               credentials[i].created_at >= credentials[j].created_at}
                  encryptionKey == deriveEncryptionKey(activeSession.masterPassword,
                                                       activeSession.salt)
                  clientInfo == pairedClients[ws]
              IN
              IF found = {}
              THEN {CredentialsError("No credentials found for this site")}
              ELSE { LET credential == credentials[i]
                         decryptedUsername ==
                             IF credential.username # EmptyText
                             THEN decryptPassword(credential.username, encryptionKey)
                             ELSE [ok |-> TRUE, value |-> ""]
                         decryptedPassword ==
                             decryptPassword(credential.password, encryptionKey)
                     IN IF ~decryptedUsername.ok \/ ~decryptedPassword.ok
                        THEN CredentialsError("Internal error")
                        ELSE IF clientInfo.sessionKey # NoKey
                        THEN [type |-> "credentials-response", success |-> TRUE,
                              url |-> requestUrl,
                              username |-> encryptForTransport(decryptedUsername.value,
                                                               clientInfo.sessionKey),
                              password |-> encryptForTransport(decryptedPassword.value,
                                                               clientInfo.sessionKey),
                              encrypted |-> TRUE]
                        ELSE [type |-> "credentials-response", success |-> TRUE,
                              url |-> requestUrl,
                              username |-> decryptedUsername.value,
                              password |-> decryptedPassword.value,
                              encrypted |-> FALSE]
                     : i \in first }

\* wss.on('connection')
Connect(ws) ==
    /\ ws \notin extensionClients
    /\ extensionClients' = extensionClients \cup {ws}
    /\ pairedClients' = MapSet(pairedClients, ws, [paired |-> FALSE, sessionKey |-> NoKey])
    /\ sent' = MapSet(sent, ws, NoFrame)
    /\ lookupLog' = MapSet(lookupLog, ws, << >>)
    /\ pairHistory' = MapSet(pairHistory, ws, [codes |-> {}, gotKey |-> FALSE])
    /\ readyState' = MapSet(readyState, ws, "OPEN")
    /\ UNCHANGED <<now, loginAttempts, sessionVars, ipcReply, wsRateLimits, appId,
                   credentials, envVars, everClosed, wire>>

\* ws.on('close')
Close(ws) ==
    /\ ws \in extensionClients
    /\ extensionClients' = extensionClients \ {ws}
    /\ pairedClients' = MapDelete(pairedClients, ws)
    /\ wsRateLimits' = MapDelete(wsRateLimits, ws)
    /\ sent' = MapDelete(sent, ws)
    /\ lookupLog' = MapDelete(lookupLog, ws)
    /\ pairHistory' = MapDelete(pairHistory, ws)
    /\ everClosed' = everClosed \cup {ws}
    /\ readyState' = MapDelete(readyState, ws)
    /\ UNCHANGED <<now, loginAttempts, sessionVars, ipcReply, appId, credentials,
                   envVars, wire>>

\* ws.on('error'), with the cleanup of the rate-limit entry left out
Error_KeepsRateLimit(ws) ==
    /\ ws \in extensionClients
    /\ extensionClients' = extensionClients \ {ws}
    /\ pairedClients' = MapDelete(pairedClients, ws)
    /\ sent' = MapDelete(sent, ws)
    /\ lookupLog' = MapDelete(lookupLog, ws)
    /\ pairHistory' = MapDelete(pairHistory, ws)
    /\ everClosed' = everClosed \cup {ws}
    /\ readyState' = MapDelete(readyState, ws)
    /\ UNCHANGED <<now, loginAttempts, sessionVars, ipcReply, appId, credentials,
                   envVars, wsRateLimits, wire>>

\* ws.on('error')
Error(ws) ==
    /\ ws \in extensionClients
    /\ extensionClients' = extensionClients \ {ws}
    /\ pairedClients' = MapDelete(pairedClients, ws)
    /\ wsRateLimits' = MapDelete(wsRateLimits, ws)
    /\ sent' = MapDelete(sent, ws)
    /\ lookupLog' = MapDelete(lookupLog, ws)
    /\ pairHistory' = MapDelete(pairHistory, ws)
    /\ everClosed' = everClosed \cup {ws}
    /\ readyState' = MapDelete(readyState, ws)
    /\ UNCHANGED <<now, loginAttempts, sessionVars, ipcReply, appId, credentials,
                   envVars, wire>>

PairMsg(code) == [type |-> "pair", code |-> code]
RequestMsg(url) == [type |-> "request-credentials", url |-> url]
ConnectedMsg == [type |-> "extension-connected"]
OtherMsg == [type |-> "ping"]
\* a frame on which JSON.parse throws
MalformedMsg == [malformed |-> TRUE]

LookupCount(ws) ==
    LET log == lookupLog[ws]
        RECURSIVE Sum(_)
        Sum(S) == IF S = {} THEN 0
                  ELSE LET t == CHOOSE x \in S : TRUE IN log[t] + Sum(S \ {t})
    IN Sum(DOMAIN log)

Logged(ws) ==
    [lookupLog EXCEPT ![ws] =
        MapSet(@, now, IF now \in DOMAIN @ THEN @[now] + 1 ELSE 1)]

Heard(ws, code, key) ==
    [pairHistory EXCEPT ![ws] = [codes |-> @.codes \cup {code},
                                 gotKey |-> @.gotKey \/ key]]

\* message.code === appId, with any non-empty code accepted
codeMatches_Truthy(code, id) == code # ""

\* message.code === appId
codeMatches(code, id) == code = id

\* the check of the pairing left out
isPaired_Always(clients, ws) == TRUE

\* !clientInfo || !clientInfo.paired, with the paired flag not looked at
isPaired_EntryOnly(clients, ws) == ws \in DOMAIN clients

\* the negation of  !clientInfo || !clientInfo.paired
isPaired(clients, ws) == ws \in DOMAIN clients /\ clients[ws].paired

\* ws.send(frame) on connection ws: the frames in flight to the extension
\* after it
Sending(ws, frame) == IF ws = ext.ws THEN Append(wire, frame) ELSE wire

\* ws.on('message'): one frame from the extension, handled to the end
WsMessage(ws, message) ==
    /\ ws \in extensionClients
    /\ readyState[ws] = "OPEN"
    /\ IF message = MalformedMsg
       THEN UNCHANGED vars
       ELSE IF message.type = "pair"
       THEN LET rl == checkWsRateLimit(wsRateLimits, ws, "pair", now) IN
            IF ~rl.ok
            THEN /\ wsRateLimits' = rl.limits
                 /\ sent' = [sent EXCEPT ![ws] = rl.frame]
                 /\ wire' = Sending(ws, rl.frame)
                 /\ pairHistory' = Heard(ws, message.code, FALSE)
                 /\ UNCHANGED <<now, loginAttempts, sessionVars, ipcReply,
                                extensionClients, pairedClients, appId, credentials, envVars,
                                lookupLog, everClosed, readyState>>
            ELSE IF codeMatches(message.code, appId)
            THEN LET sessionKey == generateSessionKey IN
                 /\ pairedClients' = MapSet(pairedClients, ws,
                                            [paired |-> TRUE, sessionKey |-> sessionKey])
                 /\ wsRateLimits' = MapDelete(rl.limits, ws)
                 /\ sent' = [sent EXCEPT ![ws] =
                                [type |-> "pair-success", sessionKey |-> sessionKey]]
                 /\ wire' = Sending(ws, [type |-> "pair-success",
                                         sessionKey |-> sessionKey])
                 /\ pairHistory' = Heard(ws, message.code, TRUE)
                 /\ UNCHANGED <<now, loginAttempts, sessionVars, ipcReply,
                                extensionClients, appId, credentials, envVars, lookupLog,
                                everClosed, readyState>>
            ELSE /\ wsRateLimits' = rl.limits
                 /\ sent' = [sent EXCEPT ![ws] = [type |-> "pair-failed"]]
                 /\ wire' = Sending(ws, [type |-> "pair-failed"])
                 /\ pairHistory' = Heard(ws, message.code, FALSE)
                 /\ UNCHANGED <<now, loginAttempts, sessionVars, ipcReply,
                                extensionClients, pairedClients, appId, credentials, envVars,
                                lookupLog, everClosed, readyState>>
       ELSE IF ~isPaired(pairedClients, ws)
       THEN /\ sent' = [sent EXCEPT ![ws] = ErrorNotPaired]
            /\ wire' = Sending(ws, ErrorNotPaired)
            /\ UNCHANGED <<now, loginAttempts, sessionVars, ipcReply, extensionClients,
                           pairedClients, wsRateLimits, appId, credentials, envVars, lookupLog,
                           pairHistory, everClosed, readyState>>
       ELSE IF message.type = "request-credentials"
       THEN LET rl == checkWsRateLimit(wsRateLimits, ws, "credentials", now) IN
            IF ~rl.ok
            THEN /\ wsRateLimits' = rl.limits
                 /\ sent' = [sent EXCEPT ![ws] = rl.frame]
                 /\ wire' = Sending(ws, rl.frame)
                 /\ UNCHANGED <<now, loginAttempts, sessionVars, ipcReply,
                                extensionClients, pairedClients, appId, credentials, envVars,
                                lookupLog, pairHistory, everClosed, readyState>>
            ELSE /\ LookupCount(ws) < MaxLookups
                 /\ wsRateLimits' = rl.limits
                 /\ \E frame \in handleCredentialRequest(ws, message.url) :
                        /\ sent' = [sent EXCEPT ![ws] = frame]
                        /\ wire' = Sending(ws, frame)
                 /\ lookupLog' = Logged(ws)
                 /\ UNCHANGED <<now, loginAttempts, sessionVars, ipcReply,
                                extensionClients, pairedClients, appId, credentials, envVars,
                                pairHistory, everClosed, readyState>>
       ELSE UNCHANGED vars

-----------------------------------------------------------------------------
(* main.ts: the remaining session and vault handlers *)

HostInfos == {"host-1", "host-2"}

\* persistedUser.expiresAt && persistedUser.expiresAt < now, never true
isExpired_Never(persistedUser, t) == FALSE

\* persistedUser.expiresAt && persistedUser.expiresAt < now
isExpired(persistedUser, t) ==
    persistedUser.expiresAt # 0 /\ persistedUser.expiresAt < t

\* ipcMain.handle('auth:verify')
Verify ==
    IF activeSession # Null
    THEN /\ ipcReply' = [channel |-> "auth:verify", success |-> TRUE,
                         userId |-> activeSession.userId]
         /\ UNCHANGED <<now, loginAttempts, sessionVars, gatewayVars, credentials,
                        envVars>>
    ELSE IF storeUser = Null
    THEN /\ ipcReply' = [channel |-> "auth:verify", success |-> FALSE,
                         error |-> "Not authenticated"]
         /\ UNCHANGED <<now, loginAttempts, sessionVars, gatewayVars, credentials,
                        envVars>>
    ELSE IF isExpired(storeUser, now)
    THEN /\ storeUser' = Null
         /\ ipcReply' = [channel |-> "auth:verify", success |-> FALSE,
                         error |-> "Session expired"]
         /\ UNCHANGED <<now, loginAttempts, activeSession, syncPollingInterval,
                        gatewayVars, credentials, envVars>>
    ELSE IF storeUser.deviceId # getDeviceFingerprint
    THEN /\ storeUser' = Null
         /\ ipcReply' = [channel |-> "auth:verify", success |-> FALSE,
                         error |-> "Session invalid on this device"]
         /\ UNCHANGED <<now, loginAttempts, activeSession, syncPollingInterval,
                        gatewayVars, credentials, envVars>>
    ELSE IF \E u \in users : u.id = storeUser.id
    THEN /\ activeSession' = [userId |-> storeUser.id,
                              username |-> storeUser.username,
                              salt |-> storeUser.salt,
                              masterPassword |-> Undefined]
         /\ ipcReply' = [channel |-> "auth:verify", success |-> TRUE,
                         userId |-> storeUser.id]
         /\ UNCHANGED <<now, loginAttempts, storeUser, syncPollingInterval,
                        gatewayVars, credentials, envVars>>
    ELSE /\ storeUser' = Null
         /\ activeSession' = Null
         /\ ipcReply' = [channel |-> "auth:verify", success |-> FALSE,
                         error |-> "Session expired or user not found"]
         /\ UNCHANGED <<now, loginAttempts, syncPollingInterval, gatewayVars,
                        credentials, envVars>>

\* ipcMain.handle('auth:verifyMasterPassword').  The master_verify_token
\* column it may fill in is not part of the modelled users rows.
VerifyMasterPassword(masterPassword) ==
    IF activeSession = Null
    THEN /\ ipcReply' = [channel |-> "auth:verifyMasterPassword",
                         success |-> FALSE, error |-> "Not authenticated"]
         /\ UNCHANGED <<now, loginAttempts, sessionVars, gatewayVars, credentials,
                        envVars>>
    ELSE LET rows == {u \in users : u.id = activeSession.userId} IN
         IF rows = {}
         THEN /\ ipcReply' = [channel |-> "auth:verifyMasterPassword",
                              success |-> FALSE, error |-> "User not found"]
              /\ UNCHANGED <<now, loginAttempts, sessionVars, gatewayVars,
                             credentials, envVars>>
         ELSE LET user == CHOOSE u \in rows : TRUE IN
              IF ~verifyPassword(masterPassword, user.salt, user.password_hash)
              THEN /\ ipcReply' = [channel |-> "auth:verifyMasterPassword",
                                   success |-> FALSE,
                                   error |-> "Invalid master password"]
                   /\ UNCHANGED <<now, loginAttempts, sessionVars, gatewayVars,
                                  credentials, envVars>>
              ELSE /\ activeSession' =
                          [activeSession EXCEPT !.masterPassword = masterPassword]
                   /\ syncPollingInterval' = TRUE
                   /\ polls' = startPasswordSyncPolling(syncPollingInterval,
                                                        activeSession', credentials,
                                                        polls, connectorUp)
                   /\ ipcReply' = [channel |-> "auth:verifyMasterPassword",
                                   success |-> TRUE]
                   /\ UNCHANGED <<now, loginAttempts, storeUser, gatewayVars,
                                  credentials, hostInfo, users, storeAppId,
                                  sqliteSequence, connectorUp, ext>>

NoSearch == << >>                \* search absent or ''

\* one row as credentials:fetch returns it
decryptRow(cred, encryptionKey) ==
    [id |-> cred.id,
     created_at |-> cred.created_at,
     password |-> decryptPassword(cred.password, encryptionKey),
     username |-> IF cred.username # EmptyText
                  THEN decryptPassword(cred.username, encryptionKey)
                  ELSE [ok |-> TRUE, value |-> ""]]

\* ipcMain.handle('credentials:fetch'); the only column the search is
\* matched against here is site_link
FetchCredentials(masterPassword, search) ==
    IF activeSession = Null
    THEN /\ ipcReply' = [channel |-> "credentials:fetch", success |-> FALSE,
                         error |-> "Not authenticated"]
         /\ UNCHANGED <<now, loginAttempts, sessionVars, gatewayVars, credentials,
                        envVars>>
    ELSE LET encryptionKey == deriveEncryptionKey(masterPassword, activeSession.salt)
             selected == {i \in 1..Len(credentials) :
                            /\ credentials[i].user_id = activeSession.userId
                            /\ search # NoSearch =>
                                   Like(credentials[i].site_link, search)}
             decrypted == {decryptRow(credentials[i], encryptionKey) : i \in selected}
             failed == {r \in decrypted : ~r.password.ok \/ ~r.username.ok}
             \* rows are decrypted newest first; the first failure is thrown
             thrown == {r \in failed : \A q \in failed : r.created_at >= q.created_at}
         IN
         IF failed # {}
         THEN /\ \E r \in thrown :
                    ipcReply' = [channel |-> "credentials:fetch", success |-> FALSE,
                                 error |-> IF ~r.password.ok THEN r.password.error
                                           ELSE r.username.error]
              /\ UNCHANGED <<now, loginAttempts, sessionVars, gatewayVars,
                             credentials, envVars>>
         ELSE /\ activeSession' =
                    IF activeSession.masterPassword \in {Undefined, ""}
                    THEN [activeSession EXCEPT !.masterPassword = masterPassword]
                    ELSE activeSession
              /\ ipcReply' = [channel |-> "credentials:fetch", success |-> TRUE,
                              credentials |->
                                  {[id |-> r.id, username |-> r.username.value,
                                    password |-> r.password.value] : r \in decrypted}]
              /\ UNCHANGED <<now, loginAttempts, storeUser, syncPollingInterval,
                             gatewayVars, credentials, envVars>>

\* ipcMain.handle('credentials:update')
UpdateCredential(id, masterPassword, siteLink, username, password) ==
    IF activeSession = Null
    THEN /\ ipcReply' = [channel |-> "credentials:update", success |-> FALSE,
                         error |-> "Not authenticated"]
         /\ UNCHANGED <<now, loginAttempts, sessionVars, gatewayVars, credentials,
                        envVars>>
    ELSE LET encryptionKey == deriveEncryptionKey(masterPassword, activeSession.salt)
             encryptedPassword == encryptPassword(password, encryptionKey)
             encryptedUsername == IF username # ""
                                  THEN encryptPassword(username, encryptionKey)
                                  ELSE EmptyText
         IN /\ credentials' =
                  [i \in 1..Len(credentials) |->
                      IF credentials[i].id = id
                         /\ credentials[i].user_id = activeSession.userId
                      THEN [credentials[i] EXCEPT !.site_link = siteLink,
                                                  !.username = encryptedUsername,
                                                  !.password = encryptedPassword]
                      ELSE credentials[i]]
            /\ ipcReply' = [channel |-> "credentials:update", success |-> TRUE]
            /\ UNCHANGED <<now, loginAttempts, sessionVars, gatewayVars, envVars>>

\* credentials:delete with  DELETE FROM credentials WHERE id = ?
DeleteCredential_AnyUser(id) ==
    IF activeSession = Null
    THEN /\ ipcReply' = [channel |-> "credentials:delete", success |-> FALSE,
                         error |-> "Not authenticated"]
         /\ UNCHANGED <<now, loginAttempts, sessionVars, gatewayVars, credentials,
                        envVars>>
    ELSE /\ credentials' = SelectSeq(credentials, LAMBDA row : row.id # id)
         /\ ipcReply' = [channel |-> "credentials:delete", success |-> TRUE]
         /\ UNCHANGED <<now, loginAttempts, sessionVars, gatewayVars, envVars>>

\* ipcMain.handle('credentials:delete')
DeleteCredential(id) ==
    IF activeSession = Null
    THEN /\ ipcReply' = [channel |-> "credentials:delete", success |-> FALSE,
                         error |-> "Not authenticated"]
         /\ UNCHANGED <<now, loginAttempts, sessionVars, gatewayVars, credentials,
                        envVars>>
    ELSE /\ credentials' =
               SelectSeq(credentials,
                         LAMBDA row : ~(row.id = id
                                        /\ row.user_id = activeSession.userId))
         /\ ipcReply' = [channel |-> "credentials:delete", success |-> TRUE]
         /\ UNCHANGED <<now, loginAttempts, sessionVars, gatewayVars, envVars>>

\* the condition under which sendToExtension sends to client
reaches(client) ==
    /\ client \in extensionClients
    /\ readyState[client] = "OPEN"
    /\ isPaired(pairedClients, client)

\* sendToExtension(data), with client.readyState not looked at
sendToExtension_AnyState(data) ==
    [client \in DOMAIN sent |->
        IF client \in extensionClients /\ isPaired(pairedClients, client)
        THEN [type |-> data.type, url |-> data.url,
              username |-> encryptForTransport(data.username,
                                               pairedClients[client].sessionKey),
              password |-> encryptForTransport(data.password,
                                               pairedClients[client].sessionKey),
              autoClick |-> data.autoClick, encrypted |-> TRUE]
        ELSE sent[client]]

\* sendToExtension(data): the last frame on every connection after the call
sendToExtension(data) ==
    [client \in DOMAIN sent |->
        IF /\ client \in extensionClients
           /\ readyState[client] = "OPEN"
           /\ isPaired(pairedClients, client)
        THEN IF pairedClients[client].sessionKey # NoKey /\ data.type = "credentials"
             THEN [type |-> data.type, url |-> data.url,
                   username |-> encryptForTransport(data.username,
                                                    pairedClients[client].sessionKey),
                   password |-> encryptForTransport(data.password,
                                                    pairedClients[client].sessionKey),
                   autoClick |-> data.autoClick, encrypted |-> TRUE]
             ELSE [type |-> data.type, url |-> data.url, username |-> data.username,
                   password |-> data.password, autoClick |-> data.autoClick,
                   encrypted |-> FALSE]
        ELSE sent[client]]

NoCredentialId == 0              \* credentialId absent

\* ipcMain.handle('open-in-browser'); browserFound: one of the browser's
\* install paths exists
OpenInBrowser(url, browserFound, credentialId) ==
    IF ~browserFound
    THEN /\ ipcReply' = [channel |-> "open-in-browser", success |-> FALSE,
                         error |-> "browser not found"]
         /\ UNCHANGED <<now, loginAttempts, sessionVars, gatewayVars, credentials,
                        envVars>>
    ELSE IF credentialId # NoCredentialId /\ activeSession # Null
    THEN IF activeSession.masterPassword \in {Undefined, ""}
         THEN /\ ipcReply' = [channel |-> "open-in-browser", success |-> TRUE,
                              warning |-> "Master password not available for auto-fill"]
              /\ UNCHANGED <<now, loginAttempts, sessionVars, gatewayVars,
                             credentials, envVars>>
         ELSE LET found == {i \in 1..Len(credentials) :
                               /\ credentials[i].id = credentialId
                               /\ credentials[i].user_id = activeSession.userId}
                  encryptionKey == deriveEncryptionKey(activeSession.masterPassword,
                                                       activeSession.salt)
              IN /\ ipcReply' = [channel |-> "open-in-browser", success |-> TRUE]
                 /\ IF found = {}
                    THEN sent' = sent /\ wire' = wire
                    ELSE LET row == decryptRow(credentials[CHOOSE i \in found : TRUE],
                                               encryptionKey)
                         IN IF ~row.username.ok \/ ~row.password.ok
                            THEN sent' = sent /\ wire' = wire
                            ELSE LET data == [type |-> "credentials", url |-> url,
                                              username |-> row.username.value,
                                              password |-> row.password.value,
                                              autoClick |-> TRUE]
                                 IN /\ sent' = sendToExtension(data)
                                    /\ wire' = IF reaches(ext.ws)
                                               THEN Append(wire,
                                                           sendToExtension(data)[ext.ws])
                                               ELSE wire
                 /\ UNCHANGED <<now, loginAttempts, sessionVars, extensionClients,
                                pairedClients, wsRateLimits, appId, credentials,
                                lookupLog, pairHistory, everClosed, readyState,
                                envVars>>
    ELSE /\ ipcReply' = [channel |-> "open-in-browser", success |-> TRUE]
         /\ UNCHANGED <<now, loginAttempts, sessionVars, gatewayVars, credentials,
                        envVars>>

\* the peer's close frame has arrived: readyState is CLOSING until the
\* socket ends and 'close' is emitted
BeginClose(ws) ==
    /\ ws \in extensionClients
    /\ readyState[ws] = "OPEN"
    /\ readyState' = [readyState EXCEPT ![ws] = "CLOSING"]
    /\ UNCHANGED <<now, loginAttempts, sessionVars, ipcReply, extensionClients,
                   pairedClients, wsRateLimits, appId, sent, credentials,
                   lookupLog, pairHistory, everClosed, envVars, wire>>

\* The restart, with the in-memory session carried over
Restart_KeepsSession(host, keepDatabase) ==
    /\ syncPollingInterval' = FALSE
    /\ loginAttempts' = << >>
    /\ ipcReply' = Null
    /\ extensionClients' = {}
    /\ pairedClients' = << >>
    /\ wsRateLimits' = << >>
    /\ sent' = << >>
    /\ lookupLog' = << >>
    /\ pairHistory' = << >>
    /\ readyState' = << >>
    /\ hostInfo' = host
    /\ users' = IF keepDatabase THEN users ELSE {}
    /\ credentials' = IF keepDatabase THEN credentials ELSE << >>
    /\ sqliteSequence' = IF keepDatabase THEN sqliteSequence ELSE 0
    /\ \E fresh \in FreshIds :
          LET created == getOrCreateAppId(storeAppId, fresh)
          IN appId' = created.appId /\ storeAppId' = created.store
    /\ polls' = {}
    /\ UNCHANGED <<now, activeSession, storeUser, everClosed, connectorUp, wire,
                   ext>>

\* The application quits and starts again: everything held in memory is
\* gone, the electron-store file and the database file stay, and
\* initWebSocketServer sets appId from getOrCreateAppId.  Between the two
\* runs the host description may have changed and the database file may
\* have been replaced by an empty one.
Restart(host, keepDatabase) ==
    /\ activeSession' = Null
    /\ syncPollingInterval' = FALSE
    /\ loginAttempts' = << >>
    /\ ipcReply' = Null
    /\ extensionClients' = {}
    /\ pairedClients' = << >>
    /\ wsRateLimits' = << >>
    /\ sent' = << >>
    /\ lookupLog' = << >>
    /\ pairHistory' = << >>
    /\ readyState' = << >>
    /\ hostInfo' = host
    /\ users' = IF keepDatabase THEN users ELSE {}
    /\ credentials' = IF keepDatabase THEN credentials ELSE << >>
    /\ sqliteSequence' = IF keepDatabase THEN sqliteSequence ELSE 0
    /\ \E fresh \in FreshIds :
          LET created == getOrCreateAppId(storeAppId, fresh)
          IN appId' = created.appId /\ storeAppId' = created.store
    /\ polls' = {}
    /\ UNCHANGED <<now, storeUser, everClosed, connectorUp, wire, ext>>

-----------------------------------------------------------------------------
(* The browser extension's background script (background.js).  Only the  *)
(* variables that decide what it decrypts and what it hands to pages are  *)
(* kept: the stored App ID and the reconnect timer decide what it sends,  *)
(* and the frames it sends are inputs of the gateway.                     *)

PendingTtl == 30

U_TabNotExample == S_Https \o U_ReqNotExample
TabUrls == {U_TabNotExample, U_SiteMail, U_SiteBank}

RegexLetters == Letters \cup {"B", "K"}
HostChars == RegexLetters \cup {".", "-"}

\* String(u).match(/([a-z0-9.-]+\.[a-z]{2,})(?:[:/]|$)/i): the first group
\* of the leftmost match, both groups as long as they can be; '' without a
\* match
regexHost(u) ==
    LET matches ==
            {m \in (1..Len(u)) \X (1..Len(u)) \X (1..Len(u)) :
                /\ m[1] < m[2] /\ m[2] + 2 <= m[3]
                /\ \A x \in m[1]..(m[2] - 1) : u[x] \in HostChars
                /\ u[m[2]] = "."
                /\ \A x \in (m[2] + 1)..m[3] : u[x] \in RegexLetters
                /\ m[3] = Len(u) \/ u[m[3] + 1] \in {":", "/"}}
        leftmost == {m \in matches : \A n \in matches : m[1] <= n[1]}
        longest == {m \in leftmost : \A n \in leftmost :
                       m[2] > n[2] \/ (m[2] = n[2] /\ m[3] >= n[3])}
    IN IF matches = {} THEN << >>
       ELSE LET m == CHOOSE x \in longest : TRUE IN SubSeq(u, m[1], m[3])

\* getHostname(u): new URL(u).hostname, then with 'https://' in front, then
\* the regular expression
getHostname(u) ==
    IF urlHostname(u).ok THEN urlHostname(u).hostname
    ELSE IF urlHostname(S_Https \o u).ok THEN urlHostname(S_Https \o u).hostname
    ELSE regexHost(u)

\* String.prototype.endsWith
endsWith(s, suffix) ==
    /\ Len(suffix) <= Len(s)
    /\ SubSeq(s, Len(s) - Len(suffix) + 1, Len(s)) = suffix

\* tabHost && targetHost && tabHost.endsWith(targetHost), for the page at
\* pageUrl and credentials for url
hostsMatch(pageUrl, url) ==
    LET tabHost == IF pageUrl # NoTab THEN getHostname(pageUrl) ELSE << >>
        targetHost == getHostname(url)
    IN tabHost # << >> /\ targetHost # << >> /\ endsWith(tabHost, targetHost)

\* decryptFromTransport(encryptedData, key): XOR with the bytes of key
\* gives the text back when key is the key the text was encrypted with,
\* other bytes when it is not, and the empty text in both cases
decryptFromTransport(encryptedData, key) ==
    IF encryptedData.data = "" THEN ""
    ELSE IF encryptedData.xor = key THEN encryptedData.data
    ELSE "<other bytes>"

\* the 'pair-success' branch of onmessage with the first key kept
onPairSuccess_KeepsKey(e, data) ==
    [e EXCEPT !.isPaired = TRUE,
              !.sessionKey = IF @ = NoKey THEN data.sessionKey ELSE @]

\* the 'pair-success' branch of onmessage
onPairSuccess(e, data) ==
    [e EXCEPT !.isPaired = TRUE,
              !.sessionKey = IF data.sessionKey # NoKey THEN data.sessionKey ELSE @]

\* what a page is given: the pending credentials without their timestamp
handedTo(pageUrl, pending) ==
    [page |-> pageUrl, url |-> pending.url, username |-> pending.username,
     password |-> pending.password]

\* the 'credentials-response' (success) and 'credentials' branches of
\* onmessage: the payload is decrypted, kept as pendingCredentials and sent
\* to the open page when the hosts match
onCredentials(e, data, autoClick, t) ==
    LET decrypt == data.encrypted /\ e.sessionKey # NoKey
        pending == [url |-> data.url,
                    username |-> IF decrypt
                                 THEN decryptFromTransport(data.username, e.sessionKey)
                                 ELSE data.username,
                    password |-> IF decrypt
                                 THEN decryptFromTransport(data.password, e.sessionKey)
                                 ELSE data.password,
                    autoClick |-> autoClick, timestamp |-> t]
    IN [e EXCEPT !.pendingCredentials = pending,
                 !.handed = IF hostsMatch(e.tab, data.url)
                            THEN @ \cup {handedTo(e.tab, pending)} ELSE @]

\* ws.onmessage
onmessage(e, data, t) ==
    IF data.type = "pair-success" THEN onPairSuccess(e, data)
    ELSE IF data.type = "pair-failed" THEN [e EXCEPT !.isPaired = FALSE]
    ELSE IF data.type = "credentials-response"
    THEN IF data.success THEN onCredentials(e, data, FALSE, t) ELSE e
    ELSE IF data.type = "credentials" THEN onCredentials(e, data, data.autoClick, t)
    ELSE e

serverVars == <<now, loginAttempts, sessionVars, ipcReply, credentials,
                extensionClients, pairedClients, wsRateLimits, appId, sent,
                lookupLog, pairHistory, everClosed, readyState, hostInfo, users,
                storeAppId, sqliteSequence, polls, connectorUp>>

\* ws.onopen: the extension's socket is the peer of connection c, on which
\* the gateway has heard and sent nothing yet
ExtOpen(c) ==
    /\ ext.ws = NoSocket
    /\ c \in extensionClients
    /\ readyState[c] = "OPEN"
    /\ sent[c] = NoFrame
    /\ pairHistory[c].codes = {}
    /\ ext' = [ext EXCEPT !.ws = c]
    /\ wire' = << >>
    /\ UNCHANGED serverVars

\* ws.onclose: ws = null; isPaired and sessionKey stay as they are, and
\* frames that had not arrived are lost
ExtClose ==
    /\ ext.ws # NoSocket
    /\ ext' = [ext EXCEPT !.ws = NoSocket]
    /\ wire' = << >>
    /\ UNCHANGED serverVars

\* the next frame arrives and ws.onmessage handles it
ExtReceive ==
    /\ ext.ws # NoSocket
    /\ wire # << >>
    /\ ext' = onmessage(ext, Head(wire), now)
    /\ wire' = Tail(wire)
    /\ UNCHANGED serverVars

\* chrome.tabs.onUpdated with status 'complete': the page at url has loaded
ExtTabUpdated(url) ==
    /\ ext' = [ext EXCEPT !.tab = url,
                          !.handed =
                              IF /\ ext.pendingCredentials # Null
                                 /\ hostsMatch(url, ext.pendingCredentials.url)
                              THEN @ \cup {handedTo(url, ext.pendingCredentials)}
                              ELSE @]
    /\ UNCHANGED <<serverVars, wire>>

\* chrome.runtime.onMessage 'get-credentials' from the content script of
\* the open page
ExtGetCredentials ==
    /\ ext.tab # NoTab
    /\ ext' = [ext EXCEPT !.handed =
                              IF /\ ext.pendingCredentials # Null
                                 /\ hostsMatch(ext.tab, ext.pendingCredentials.url)
                              THEN @ \cup {handedTo(ext.tab, ext.pendingCredentials)}
                              ELSE @]
    /\ UNCHANGED <<serverVars, wire>>

\* chrome.runtime.onMessage 'autofill-success'
ExtAutofillSuccess ==
    /\ ext.pendingCredentials # Null
    /\ ext' = [ext EXCEPT !.pendingCredentials = Null]
    /\ UNCHANGED <<serverVars, wire>>

\* the 5-second timer that drops pending credentials older than 30 seconds
ExtExpire ==
    /\ ext.pendingCredentials # Null
    /\ now - ext.pendingCredentials.timestamp > PendingTtl
    /\ ext' = [ext EXCEPT !.pendingCredentials = Null]
    /\ UNCHANGED <<serverVars, wire>>

-----------------------------------------------------------------------------
\* the state after the start of the process, with the Connector API
\* reachable or not
Started(up) ==
    /\ now = 0
    /\ loginAttempts = << >>
    /\ activeSession = Null
    /\ storeUser = Null
    /\ syncPollingInterval = FALSE
    /\ ipcReply = Null
    /\ extensionClients = {}
    /\ pairedClients = << >>
    /\ wsRateLimits = << >>
    /\ appId = AppId64
    /\ sent = << >>
    /\ credentials = << >>
    /\ lookupLog = << >>
    /\ pairHistory = << >>
    /\ everClosed = {}
    /\ readyState = << >>
    /\ hostInfo = "host-1"
    /\ users = Users
    /\ storeAppId = AppId64
    /\ sqliteSequence = 0
    /\ polls = {}
    /\ connectorUp = up
    /\ wire = << >>
    /\ ext = ExtInit

Init == Started(FALSE)

InitSync == Started(TRUE)

\* The installation before the process has started: nothing in memory, the
\* electron-store file holding stored under 'appId'
Installed(stored) ==
    /\ now = 0
    /\ loginAttempts = << >>
    /\ activeSession = Null
    /\ storeUser = Null
    /\ syncPollingInterval = FALSE
    /\ ipcReply = Null
    /\ extensionClients = {}
    /\ pairedClients = << >>
    /\ wsRateLimits = << >>
    /\ appId = NoAppId
    /\ sent = << >>
    /\ credentials = << >>
    /\ lookupLog = << >>
    /\ pairHistory = << >>
    /\ everClosed = {}
    /\ readyState = << >>
    /\ hostInfo = "host-1"
    /\ users = Users
    /\ storeAppId = stored
    /\ sqliteSequence = 0
    /\ polls = {}
    /\ connectorUp = FALSE
    /\ wire = << >>
    /\ ext = ExtInit

InitLegacy == Installed(Legacy12)

InitAppId == \E stored \in StoredIds : Installed(stored)

\* decryptPassword applied to texts of two to four components of 0, 15, 16
\* or 17 bytes, with a tag that verifies or not
ComponentBytes == {0, 15, 16, 17}

CipherTexts ==
    [parts : UNION {[1..n -> ComponentBytes] : n \in 2..4}, authentic : BOOLEAN]

InitDecrypt ==
    /\ ipcReply \in {[channel |-> "decryptPassword", input |-> in, called |-> FALSE]
                         : in \in CipherTexts}
    /\ now = 0
    /\ loginAttempts = << >>
    /\ activeSession = Null
    /\ storeUser = Null
    /\ syncPollingInterval = FALSE
    /\ extensionClients = {}
    /\ pairedClients = << >>
    /\ wsRateLimits = << >>
    /\ appId = AppId64
    /\ sent = << >>
    /\ credentials = << >>
    /\ lookupLog = << >>
    /\ pairHistory = << >>
    /\ everClosed = {}
    /\ readyState = << >>
    /\ hostInfo = "host-1"
    /\ users = Users
    /\ storeAppId = AppId64
    /\ sqliteSequence = 0
    /\ polls = {}
    /\ connectorUp = FALSE
    /\ wire = << >>
    /\ ext = ExtInit

DecryptCall ==
    /\ ~ipcReply.called
    /\ ipcReply' = [channel |-> "decryptPassword", input |-> ipcReply.input,
                    called |-> TRUE,
                    result |-> decryptParts(ipcReply.input.parts,
                                            ipcReply.input.authentic)]
    /\ UNCHANGED <<now, loginAttempts, sessionVars, gatewayVars, credentials,
                   envVars>>

NextDecrypt == DecryptCall

SpecDecrypt == InitDecrypt /\ [][NextDecrypt]_vars

(* Two users who each keep a credential for the same mailbox, and the     *)
(* password sync with a Connector that answers                            *)
SyncInputs ==
    { [owner |-> "alice", masterPassword |-> "pwA", username |-> E_Team,
       password |-> "old-a"],
      [owner |-> "bob", masterPassword |-> "pwB", username |-> E_TeamCaps,
       password |-> "old-b"],
      [owner |-> "bob", masterPassword |-> "pwB", username |-> "ub",
       password |-> "pb"] }

NextSync ==
    \/ Login("alice", "pwA")
    \/ Login("bob", "pwB")
    \/ Logout
    \/ WindowClose
    \/ \E mp \in {"pwA", "pwB"} : VerifyMasterPassword(mp)
    \/ \E in \in SyncInputs :
          /\ activeSession # Null /\ activeSession.username = in.owner
          /\ CreateCredential(in.masterPassword, U_SiteBank, in.username, in.password)
    \/ PollTick
    \/ \E poll \in polls : \E changes \in PendingChanges(poll) :
          PollResponse(poll, changes)

SpecSync == InitSync /\ [][NextSync]_vars

(* Logins for one username over more than an hour, with the sweep *)
SweepSteps == {300}

NextSweep ==
    \/ \E p \in {"pwA", "bad"} : Login("alice", p)
    \/ \E d \in SweepSteps : AdvanceTime(d, MaxTimeSweep)
    \/ CleanupLoginAttempts

SpecSweep == Init /\ [][NextSweep]_vars

(* The extension on one connection after another: it pairs and pairs     *)
(* again, asks for credentials, gets pushes, loses its connection and      *)
(* opens pages                                                             *)
ExtSteps == {31}
ExtCodes == {AppId64, WrongCode}

\* the extension's socket is open on the gateway and fewer than MaxInFlight
\* frames are on their way to it
ExtCanSend == ext.ws \in extensionClients /\ Len(wire) < MaxInFlight

\* connectWebSocket() makes a connection when the extension has none: ws
\* is null and no connection that the gateway accepted waits for onopen.
\* The new connection takes the least identifier that is free
ExtConnects(c) ==
    /\ ext.ws = NoSocket
    /\ \A d \in extensionClients : sent[d] # NoFrame \/ pairHistory[d].codes # {}
    /\ \A d \in ConnIds \ extensionClients : c <= d

NextExt ==
    \/ activeSession = Null /\ Login("alice", "pwA")
    \/ /\ credentials = << >>
       /\ CreateCredential("pwA", U_SiteMail, "user", "secret")
    \/ \E c \in ConnIds : ExtConnects(c) /\ Connect(c)
    \/ \E c \in ConnIds : Close(c)
    \/ \E c \in ConnIds : ExtOpen(c)
    \/ ExtClose
    \/ \E code \in ExtCodes :
          /\ ExtCanSend
          /\ code # appId => ext.ws \notin DOMAIN wsRateLimits
          /\ WsMessage(ext.ws, PairMsg(code))
    \/ /\ ExtCanSend
       /\ ext.ws \notin DOMAIN wsRateLimits
       /\ lookupLog[ext.ws] = << >>
       /\ WsMessage(ext.ws, RequestMsg(U_ReqExample))
    \/ /\ Len(wire) < MaxInFlight
       /\ OpenInBrowser(U_SiteMail, TRUE, 1)
    \/ ExtReceive

SpecExt == Init /\ [][NextExt]_vars

(* The extension on one connection, the pages that load in the browser and *)
(* the clock                                                               *)
NextTabs ==
    \/ activeSession = Null /\ Login("alice", "pwA")
    \/ /\ credentials = << >>
       /\ CreateCredential("pwA", U_SiteMail, "user", "secret")
    \/ extensionClients = {} /\ Connect(1)
    \/ ExtOpen(1)
    \/ /\ ExtCanSend
       /\ ~pairedClients[ext.ws].paired
       /\ WsMessage(ext.ws, PairMsg(AppId64))
    \/ /\ ExtCanSend
       /\ ext.ws \notin DOMAIN wsRateLimits
       /\ WsMessage(ext.ws, RequestMsg(U_ReqExample))
    \/ /\ Len(wire) < MaxInFlight
       /\ OpenInBrowser(U_SiteMail, TRUE, 1)
    \/ ExtReceive
    \/ \E url \in TabUrls : ExtTabUpdated(url)
    \/ ExtGetCredentials
    \/ ExtAutofillSuccess
    \/ ExtExpire
    \/ \E d \in ExtSteps : AdvanceTime(d, MaxTimeExt)

SpecTabs == Init /\ [][NextTabs]_vars

(* The login handler and its rate limiter, with the clock *)
NextLogin ==
    \/ \E u \in {"alice", "carol"}, p \in {"pwA", "bad"} : Login(u, p)
    \/ \E d \in LoginSteps : AdvanceTime(d, MaxTime)
    \/ CleanupLoginAttempts

SpecLogin == Init /\ [][NextLogin]_vars

(* One connection, the frames that reach the rate limiter, and the clock *)
RateMessages == {PairMsg(AppId64), PairMsg(WrongCode), RequestMsg(U_ReqBank)}

NextRate ==
    \/ Connect(1)
    \/ \E m \in RateMessages : WsMessage(1, m)
    \/ \E d \in WsSteps : AdvanceTime(d, MaxTimeWs)

SpecRate == Init /\ [][NextRate]_vars

(* recordFailedLogin applied to every count of failures, with the clock *)
NextBackoff ==
    \/ \E u \in {"alice", "carol"} : RecordFailure(u)
    \/ \E d \in LoginSteps : AdvanceTime(d, MaxTime)

SpecBackoff == Init /\ [][NextBackoff]_vars

(* Several connections pairing, closing and failing side by side *)
PairMessages == {PairMsg(AppId64), PairMsg(WrongCode), OtherMsg}

NextPair ==
    \/ \E ws \in ConnIds : Connect(ws)
    \/ \E ws \in ConnIds : Close(ws)
    \/ \E ws \in ConnIds : Error(ws)
    \/ \E ws \in ConnIds, m \in PairMessages : WsMessage(ws, m)
    \/ \E d \in {WsBlock} : AdvanceTime(d, MaxTimeWs)

SpecPair == Init /\ [][NextPair]_vars

(* The vault session, the credentials table and one connection *)
CredentialInputs ==
    { <<"pwA", U_SiteBank, "user", "secret">>,
      <<"pwA", U_SiteMail, "", "secret">>,
      <<"bad", U_SiteBank, "user", "secret">>,
      <<"pwA", U_SiteBank, "user", "">> }

RequestUrls == {U_ReqExample, U_ReqNotExample, U_ReqBank, U_ReqFile, U_ReqEmpty,
                U_ReqSpace, NoUrl}

VaultMessages == {PairMsg(AppId64), PairMsg(WrongCode), OtherMsg, MalformedMsg,
                  ConnectedMsg}
                     \cup {RequestMsg(u) : u \in RequestUrls}

NextVault ==
    \/ Login("alice", "pwA")
    \/ Login("bob", "pwB")
    \/ Logout
    \/ WindowClose
    \/ \E in \in CredentialInputs : CreateCredential(in[1], in[2], in[3], in[4])
    \/ Connect(1)
    \/ Close(1)
    \/ \E m \in VaultMessages :
          /\ 1 \in DOMAIN lookupLog => LookupCount(1) < VaultLookups
          /\ WsMessage(1, m)

SpecVault == Init /\ [][NextVault]_vars


(* Restoring the persisted session: login, restart on the same or another *)
(* host, with the database kept or lost, and the clock up to the expiry     *)
NextRestore ==
    \/ Login("alice", "pwA")
    \/ Login("bob", "pwB")
    \/ Logout
    \/ WindowClose
    \/ Verify
    \/ \E host \in HostInfos, keepDatabase \in BOOLEAN : Restart(host, keepDatabase)
    \/ \E d \in SessionSteps : AdvanceTime(d, MaxTimeSession)

SpecRestore == Init /\ [][NextRestore]_vars

(* The session of one run after another: login, restore, unlock, lock and *)
(* logout, with one connection asking for credentials                      *)
SessionInputs == { <<"pwA", U_SiteBank, "user", "secret">> }

NextSession ==
    \/ Login("alice", "pwA")
    \/ Logout
    \/ WindowClose
    \/ Verify
    \/ \E mp \in {"pwA", "bad"} : VerifyMasterPassword(mp)
    \/ \E mp \in {"pwA", "bad"} : FetchCredentials(mp, NoSearch)
    \/ /\ credentials = << >>
       /\ \E in \in SessionInputs : CreateCredential(in[1], in[2], in[3], in[4])
    \/ Restart("host-1", TRUE)
    \/ Connect(1)
    \/ WsMessage(1, PairMsg(AppId64))
    \/ /\ 1 \notin DOMAIN wsRateLimits
       /\ WsMessage(1, RequestMsg(U_ReqBank))

SpecSession == Init /\ [][NextSession]_vars

(* Reading and writing the vault in the unlocked and the locked state *)
EditInputs ==
    { <<"pwA", U_SiteBank, "user", "secret">>,
      <<"pwA", U_SiteBank, "", "">> }

S_Bank == <<"b", "a", "n", "k">>

NextEdit ==
    \/ Login("alice", "pwA")
    \/ Logout
    \/ WindowClose
    \/ \E in \in EditInputs : CreateCredential(in[1], in[2], in[3], in[4])
    \/ \E id \in 1..MaxCreds, in \in EditInputs :
          UpdateCredential(id, in[1], in[2], in[3], in[4])
    \/ \E mp \in {"pwA", "bad"}, search \in {NoSearch, S_Bank} :
          FetchCredentials(mp, search)
    \/ \E found \in BOOLEAN, id \in 0..MaxCreds :
          OpenInBrowser(U_SiteBank, found, id)
    \/ Connect(1)
    \/ WsMessage(1, PairMsg(AppId64))
    \/ /\ 1 \notin DOMAIN wsRateLimits
       /\ WsMessage(1, RequestMsg(U_ReqBank))

SpecEdit == Init /\ [][NextEdit]_vars

(* Lookups by hostname over rows that differ in site link and in the second *)
(* of their creation                                                       *)
MatchSteps == {1}

MatchInputs ==
    { <<"pwA", U_SiteMail, "u1", "p1">>,
      <<"pwA", U_SiteBank, "u2", "p2">>,
      <<"pwA", U_SiteBank, "u3", "p3">> }

MatchUrls == {U_ReqExample, U_ReqNotExample, U_ReqBank, U_ReqUnderscore, U_ReqCaps}

NextMatch ==
    \/ Login("alice", "pwA")
    \/ \E in \in MatchInputs : CreateCredential(in[1], in[2], in[3], in[4])
    \/ Connect(1)
    \/ WsMessage(1, PairMsg(AppId64))
    \/ \E url \in MatchUrls :
          /\ 1 \in DOMAIN lookupLog => LookupCount(1) < VaultLookups
          /\ WsMessage(1, RequestMsg(url))
    \/ \E d \in MatchSteps : AdvanceTime(d, MaxTimeMatch)

SpecMatch == Init /\ [][NextMatch]_vars

(* Two users, one after the other, on one credentials table, with a       *)
(* connection that stays paired; each user stores values of their own      *)
ScopeInputs ==
    { [owner |-> "alice", masterPassword |-> "pwA", username |-> "ua",
       password |-> "pa"],
      [owner |-> "bob", masterPassword |-> "pwB", username |-> "ub",
       password |-> "pb"] }

NextScope ==
    \/ Login("alice", "pwA")
    \/ Login("bob", "pwB")
    \/ Logout
    \/ \E in \in ScopeInputs :
          /\ activeSession # Null /\ activeSession.username = in.owner
          /\ CreateCredential(in.masterPassword, U_SiteBank, in.username, in.password)
    \/ \E id \in 1..MaxCreds, in \in ScopeInputs :
          /\ activeSession # Null /\ activeSession.username = in.owner
          /\ UpdateCredential(id, in.masterPassword, U_SiteMail, in.username,
                              in.password)
    \/ \E id \in 1..MaxCreds : DeleteCredential(id)
    \/ \E mp \in {"pwA", "pwB"} : FetchCredentials(mp, NoSearch)
    \/ \E id \in 1..MaxCreds : OpenInBrowser(U_SiteBank, TRUE, id)
    \/ Connect(1)
    \/ WsMessage(1, PairMsg(AppId64))
    \/ \E url \in {U_ReqBank, U_ReqExample} :
          /\ 1 \in DOMAIN lookupLog => LookupCount(1) < VaultLookups
          /\ WsMessage(1, RequestMsg(url))

SpecScope == Init /\ [][NextScope]_vars

(* The App ID over several runs: the first start on host-1, later starts *)
(* on either host, and one connection pairing with old and new values     *)
AppIdCodes == {Legacy12, AppId64, AppId64b}

NextAppId ==
    \/ \E host \in HostInfos :
          /\ appId = NoAppId => host = "host-1"
          /\ Restart(host, TRUE)
    \/ appId # NoAppId /\ Connect(1)
    \/ Close(1)
    \/ \E code \in AppIdCodes : WsMessage(1, PairMsg(code))
    \/ \E d \in WsSteps : AdvanceTime(d, MaxTimeWs)

SpecMigrate == InitLegacy /\ [][NextAppId]_vars

SpecAppId == InitAppId /\ [][NextAppId]_vars

(* Both rate limiters under a clock that keeps advancing: Date.now() grows *)
(* whatever the handlers do, so the step of the clock is taken whenever it  *)
(* stays possible                                                          *)
BlockMessages == {PairMsg(WrongCode), PairMsg(AppId64), RequestMsg(U_ReqBank)}

\* the connection is blocked at the moment
wsBlocked(ws) == ws \in DOMAIN wsRateLimits /\ wsRateLimits[ws].blockedUntil > now

\* half of the shortest block, so that attempts fall inside a block
BlockSteps == {150}

Tick == \E d \in BlockSteps : AdvanceTime(d, MaxTimeBlock)

NextBlock ==
    \/ \E p \in {"pwA", "bad"} :
          /\ p = "pwA" => /\ "alice" \in DOMAIN loginAttempts
                          /\ loginAttempts["alice"].blockedUntil > now
          /\ Login("alice", p)
    \/ Connect(1)
    \/ \E m \in BlockMessages :
          /\ m.type = "request-credentials" => wsBlocked(1)
          /\ WsMessage(1, m)
    \/ Tick

SpecBlockFair == Init /\ [][NextBlock]_vars /\ WF_vars(Tick)

(* The push of open-in-browser to several connections *)
PushInputs == { <<"pwA", U_SiteBank, "user", "secret">> }

PushMessages == {PairMsg(AppId64), PairMsg(WrongCode)}

NextPush ==
    \/ Login("alice", "pwA")
    \/ Logout
    \/ WindowClose
    \/ \E in \in PushInputs : CreateCredential(in[1], in[2], in[3], in[4])
    \/ \E ws \in ConnIds : Connect(ws)
    \/ \E ws \in ConnIds : BeginClose(ws)
    \/ \E ws \in ConnIds : Close(ws)
    \/ \E m \in PushMessages : WsMessage(1, m)
    \/ \E ws \in ConnIds \ {1} : WsMessage(ws, PairMsg(AppId64))
    \/ \E found \in BOOLEAN, id \in 0..MaxCreds :
          OpenInBrowser(U_SiteBank, found, id)

SpecPush == Init /\ [][NextPush]_vars

-----------------------------------------------------------------------------
(* Properties of the login rate limiter (SpecLogin) *)

CorrectPassword(u, p) ==
    \E r \in UserRows(u) : verifyPassword(p, r.salt, r.password_hash)

RateLimitedReply(u, wait) ==
    [channel |-> "auth:login", username |-> u, success |-> FALSE,
     error |-> "Too many failed login attempts", waitTime |-> wait]

\* C1: the 5th recorded failure of a username sets a block that ends 300
\* seconds later; every auth:login for that username before the block ends,
\* whatever the password, returns the rate-limited error with the seconds
\* left (at most 300, exactly 300 at the instant of the 5th failure) and
\* changes neither the record nor the session; a login with the correct
\* password at or after blockedUntil succeeds and removes the record.
C1_BlockedThenCorrectLoginClears ==
    [][\A u \in Usernames, p \in Passwords :
        Login(u, p) =>
            LET had == u \in DOMAIN loginAttempts
                a == loginAttempts[u]
            IN /\ (had /\ a.count = 4 /\ u \in DOMAIN loginAttempts'
                       /\ loginAttempts'[u].count = 5)
                    => loginAttempts'[u].blockedUntil = now + 300
               /\ (had /\ a.count = 5 /\ now < a.blockedUntil)
                    => /\ ipcReply' = RateLimitedReply(u, a.blockedUntil - now)
                       /\ ipcReply'.waitTime \in 1..300
                       /\ UNCHANGED <<loginAttempts, activeSession, storeUser>>
               /\ (had /\ a.blockedUntil # 0 /\ now >= a.blockedUntil
                       /\ CorrectPassword(u, p))
                    => /\ ipcReply'.success
                       /\ activeSession'.username = u
                       /\ u \notin DOMAIN loginAttempts'
    ]_vars

C1_Witness ==
    \E u \in DOMAIN loginAttempts :
        /\ loginAttempts[u].count = 5
        /\ ipcReply = RateLimitedReply(u, 300)

\* C2 as stated: after 5 recorded failures checkLoginRateLimit reports
\* isBlocked=true while the block lasts, and once blockedUntil has passed it
\* reports isBlocked=false with attemptsRemaining = 5.
C2_BudgetResetAfterBlock ==
    \A u \in DOMAIN loginAttempts :
        LET a == loginAttempts[u]
            r == checkLoginRateLimit(loginAttempts, u, now)
        IN a.count >= 5 =>
              /\ now < a.blockedUntil => r.isBlocked
              /\ now > a.blockedUntil => ~r.isBlocked /\ r.attemptsRemaining = 5

\* C2 amended: after 5 recorded failures a block of at least 300 seconds is
\* set and checkLoginRateLimit reports isBlocked=true while it lasts; from
\* blockedUntil on it reports isBlocked=false, with attemptsRemaining = 5
\* only when more than 15 minutes have passed since the first recorded
\* failure (the record is then dropped) and attemptsRemaining = 0 before.
C2_BlockedThenUnblocked ==
    \A u \in DOMAIN loginAttempts :
        LET a == loginAttempts[u]
            r == checkLoginRateLimit(loginAttempts, u, now)
        IN a.count >= 5 =>
              /\ a.blockedUntil >= a.firstAttempt + 300
              /\ now < a.blockedUntil => r.isBlocked /\ r.attemptsRemaining = 0
              /\ now >= a.blockedUntil =>
                    /\ ~r.isBlocked
                    /\ r.attemptsRemaining =
                          IF now - a.firstAttempt > 900 THEN 5 ELSE 0
                    /\ (now - a.firstAttempt > 900) = (u \notin DOMAIN r.attempts)

C2_Witness ==
    \E u \in DOMAIN loginAttempts :
        /\ loginAttempts[u].count >= 5
        /\ now >= loginAttempts[u].blockedUntil
        /\ now - loginAttempts[u].firstAttempt <= 900

-----------------------------------------------------------------------------
(* Properties of the gateway *)

\* the rate limiter lets a frame of a kind with budget max through
Admitted(ws, max) ==
    \/ ws \notin DOMAIN wsRateLimits
    \/ /\ wsRateLimits[ws].blockedUntil <= now
       /\ \/ now - wsRateLimits[ws].lastAttempt > 60
          \/ wsRateLimits[ws].attempts < max

\* frames of a kind with budget max that would still be let through now
Remaining(ws, max) ==
    IF ws \notin DOMAIN wsRateLimits THEN max
    ELSE IF wsRateLimits[ws].blockedUntil > now THEN 0
    ELSE IF now - wsRateLimits[ws].lastAttempt > 60 THEN max
    ELSE Max(0, max - wsRateLimits[ws].attempts)

PlainOf(field) == IF field = EmptyText THEN "" ELSE field.plaintext

\* the reply C3 describes for a request on the current state
C3_Expected(url, frame) ==
    IF activeSession = Null
    THEN frame = CredentialsError("Not authenticated")
    ELSE IF activeSession.masterPassword \in {Undefined, ""}
    THEN frame = CredentialsError("Vault locked")
    ELSE IF url = NoUrl \/ ~requestHostname(url).ok
    THEN frame = CredentialsError("Invalid URL")
    ELSE LET matches == {i \in 1..Len(credentials) :
                            /\ credentials[i].user_id = activeSession.userId
                            /\ Includes(credentials[i].site_link,
                                        requestHostname(url).hostname)}
         IN IF matches = {}
            THEN frame = CredentialsError("No credentials found for this site")
            ELSE /\ frame.type = "credentials-response"
                 /\ frame.success
                 /\ \E i \in matches :
                       /\ frame.username.data = PlainOf(credentials[i].username)
                       /\ frame.password.data = PlainOf(credentials[i].password)

\* C3: a request-credentials frame on a paired connection that the rate
\* limiter lets through is answered, in this order: not-authenticated without
\* a session, vault-locked without a cached master password, invalid-URL for
\* an unparsable URL, not-found without a matching row, and otherwise a
\* success carrying the decrypted username and password of a matching row.
C3_OutcomeOrder ==
    [][\A ws \in ConnIds, url \in RequestUrls :
        (/\ ws \in extensionClients
         /\ pairedClients[ws].paired
         /\ Admitted(ws, 20)
         /\ WsMessage(ws, RequestMsg(url)))
        => C3_Expected(url, sent'[ws])
    ]_vars

C5_PairingIsolation ==
    \A ws \in extensionClients :
        /\ pairHistory[ws].codes = {appId} =>
              pairedClients[ws].paired /\ pairedClients[ws].sessionKey # NoKey
        /\ appId \notin pairHistory[ws].codes =>
              /\ ~pairedClients[ws].paired
              /\ pairedClients[ws].sessionKey = NoKey
              /\ ~pairHistory[ws].gotKey
              /\ (sent[ws] # NoFrame => sent[ws].type # "pair-success")

C5_Witness ==
    \E a, b \in extensionClients :
        /\ pairHistory[a].codes = {appId}
        /\ pairedClients[a].paired
        /\ pairHistory[b].codes = {WrongCode}
        /\ ~pairedClients[b].paired
        /\ sent[b] = [type |-> "pair-failed"]

NonPairMessages == {OtherMsg, ConnectedMsg} \cup {RequestMsg(u) : u \in RequestUrls}

\* C6: on an unpaired connection a frame of any type other than pair is
\* answered with the not-paired error and changes nothing else: not the
\* paired flag or session key, the rate-limit records, the vault session,
\* the persisted record or the credentials, and no lookup is made.
C6_UnpairedRejected ==
    [][\A ws \in ConnIds, m \in NonPairMessages :
        (/\ ws \in extensionClients
         /\ ~pairedClients[ws].paired
         /\ WsMessage(ws, m)) =>
            /\ sent'[ws] = ErrorNotPaired
            /\ UNCHANGED <<pairedClients, wsRateLimits, extensionClients, appId,
                           activeSession, storeUser, credentials, envVars, lookupLog,
                           loginAttempts>>
    ]_vars

C6_Witness ==
    \E ws \in extensionClients :
        /\ sent[ws] = ErrorNotPaired
        /\ ~pairedClients[ws].paired
        /\ ws \in DOMAIN wsRateLimits
        /\ activeSession # Null
        /\ activeSession.masterPassword # Undefined
        /\ Len(credentials) > 0

\* C7: pair frames never lower the number of credential requests the
\* connection may still make, and credential requests never lower the number
\* of pair attempts it may still make.
C7_IndependentBudgets ==
    [][\A ws \in ConnIds :
        /\ \A code \in Codes :
              WsMessage(ws, PairMsg(code)) =>
                  Remaining(ws, 20)' >= Remaining(ws, 20)
        /\ \A url \in RequestUrls :
              WsMessage(ws, RequestMsg(url)) =>
                  Remaining(ws, 5)' >= Remaining(ws, 5)
    ]_vars

\* C8: on one connection at most 20 request-credentials frames reach
\* handleCredentialRequest within any span of 60 seconds.
C8_AtMostTwentyLookups ==
    \A ws \in DOMAIN lookupLog :
        \A t \in DOMAIN lookupLog[ws] :
            LET span == {x \in DOMAIN lookupLog[ws] : t <= x /\ x <= t + 60}
                RECURSIVE Sum(_)
                Sum(S) == IF S = {} THEN 0
                          ELSE LET x == CHOOSE y \in S : TRUE
                               IN lookupLog[ws][x] + Sum(S \ {x})
            IN Sum(span) <= 20

\* a frame of this kind goes through checkWsRateLimit on this connection
RateChecked(ws, m) ==
    \/ m.type = "pair"
    \/ m.type = "request-credentials" /\ pairedClients[ws].paired

\* C9: a pair frame that is the 6th counted attempt, or a credential request
\* that is the 21st, blocks the connection until 300 seconds later; while
\* the block lasts every pair or request-credentials frame, a pair with the
\* App ID included, is answered with an error and changes neither the paired
\* flag, the session key, the rate-limit record nor the lookups; the first
\* such frame at or after the end of the block is processed and counted as
\* attempt 1.
C9_BlockForFiveMinutes ==
    [][\A ws \in ConnIds, m \in RateMessages :
        WsMessage(ws, m) =>
            LET has == ws \in DOMAIN wsRateLimits
                l == wsRateLimits[ws]
                blocked == has /\ l.blockedUntil > now
                counted == IF ~has \/ now - l.lastAttempt > 60 THEN 1
                           ELSE l.attempts + 1
                max == IF m.type = "pair" THEN 5 ELSE 20
            IN /\ blocked =>
                    /\ sent'[ws].type = "error"
                    /\ UNCHANGED <<pairedClients, wsRateLimits, lookupLog>>
               /\ (~blocked /\ RateChecked(ws, m)) =>
                    IF counted > max
                    THEN /\ wsRateLimits'[ws].blockedUntil = now + 300
                         /\ sent'[ws].type = "error"
                         /\ UNCHANGED <<pairedClients, lookupLog>>
                    ELSE sent'[ws].type # "error"
               /\ (/\ has /\ l.blockedUntil # 0 /\ l.blockedUntil <= now
                   /\ l.lastAttempt + 300 = l.blockedUntil
                   /\ RateChecked(ws, m)) =>
                    /\ sent'[ws].type \in {"pair-success", "pair-failed",
                                           "credentials-response"}
                    /\ \/ ws \notin DOMAIN wsRateLimits'
                       \/ wsRateLimits'[ws].attempts = 1
    ]_vars

C9_Witness ==
    \E ws \in DOMAIN wsRateLimits :
        /\ wsRateLimits[ws].blockedUntil > now
        /\ sent[ws].type = "error"
        /\ sent[ws].message = "Too many attempts. Wait"
        /\ appId \in pairHistory[ws].codes
        /\ ~pairedClients[ws].paired

\* C10: the close event and the error event of a connection leave no paired
\* flag, session key or rate-limit record for it, and a connection accepted
\* afterwards starts unpaired, without session key and without rate-limit
\* record.
C10_NoStateSurvivesDisconnect ==
    [][\A ws \in ConnIds :
        /\ (Close(ws) \/ Error(ws)) =>
              /\ ws \notin DOMAIN pairedClients'
              /\ ws \notin DOMAIN wsRateLimits'
              /\ ws \notin extensionClients'
        /\ Connect(ws) =>
              /\ pairedClients'[ws] = [paired |-> FALSE, sessionKey |-> NoKey]
              /\ ws \notin DOMAIN wsRateLimits'
    ]_vars

C10_Witness ==
    \E a, b \in extensionClients :
        /\ a \in everClosed
        /\ pairedClients[a] = [paired |-> FALSE, sessionKey |-> NoKey]
        /\ a \notin DOMAIN wsRateLimits
        /\ b # a
        /\ pairedClients[b].paired
        /\ b \in DOMAIN wsRateLimits

-----------------------------------------------------------------------------
(* Properties of the push (SpecPush) *)

Unlocked ==
    activeSession # Null /\ activeSession.masterPassword \notin {Undefined, ""}

IsOpenAndPaired(c) ==
    c \in extensionClients /\ readyState[c] = "OPEN" /\ pairedClients[c].paired

IsBlocked(c) == c \in DOMAIN wsRateLimits /\ wsRateLimits[c].blockedUntil > now

\* the stored credential id can be pushed: it belongs to the session user
\* and both of its fields decrypt under the session's key
Pushable(id) ==
    /\ Unlocked
    /\ \E i \in 1..Len(credentials) :
          /\ credentials[i].id = id
          /\ credentials[i].user_id = activeSession.userId
          /\ LET row == decryptRow(credentials[i],
                                   deriveEncryptionKey(activeSession.masterPassword,
                                                       activeSession.salt))
             IN row.username.ok /\ row.password.ok

\* C11: an open-in-browser call puts a frame only on connections that are
\* open and paired, and only when a session exists and its master password
\* is cached; when it pushes, every open and paired connection receives the
\* credentials frame, a rate-limit blocked one included.
C11_PushOnlyToPairedOpen ==
    [][\A found \in BOOLEAN, id \in 0..MaxCreds :
          OpenInBrowser(U_SiteBank, found, id) =>
             /\ \A c \in DOMAIN sent :
                   sent'[c] # sent[c] => IsOpenAndPaired(c) /\ Unlocked
             /\ (found /\ id # NoCredentialId /\ Pushable(id)) =>
                   \A c \in DOMAIN sent :
                      IsOpenAndPaired(c) =>
                         /\ sent'[c].type = "credentials"
                         /\ sent'[c].url = U_SiteBank
                         /\ sent'[c].password.data = "secret"]_vars

C11_Witness ==
    \E c \in extensionClients :
        /\ IsOpenAndPaired(c)
        /\ IsBlocked(c)
        /\ sent[c] # NoFrame
        /\ sent[c].type = "credentials"
        /\ \E d \in extensionClients : readyState[d] = "CLOSING" /\ pairedClients[d].paired

-----------------------------------------------------------------------------
(* Properties of the session (SpecLogin, SpecRestore, SpecSession) *)

\* C12: an auth:login that returns success leaves the session holding the
\* id, username and salt of that user's row and the supplied password as
\* master password, the persisted record of that user with expiresAt equal
\* to the time of the call plus 30 days (2592000 s) and the fingerprint of
\* the current host, and no login rate-limit record for the username.
C12_LoginEstablishesSession ==
    [][\A u \in Usernames, p \in Passwords :
          (ipcReply' # Null /\ ipcReply'.channel = "auth:login" /\ ipcReply'.success
             /\ Login(u, p)) =>
             \E row \in Users :
                /\ row.username = u
                /\ activeSession' = [userId |-> row.id, username |-> u,
                                     salt |-> row.salt, masterPassword |-> p]
                /\ storeUser' = [id |-> row.id, username |-> u, salt |-> row.salt,
                                 expiresAt |-> now + 2592000,
                                 deviceId |-> getDeviceFingerprint]
                /\ u \notin DOMAIN loginAttempts']_vars

C12_Witness ==
    /\ ipcReply # Null
    /\ ipcReply.channel = "auth:login"
    /\ ipcReply.success
    /\ now > 0
    /\ activeSession # Null
    /\ activeSession.masterPassword = "pwA"
    /\ storeUser # Null
    /\ storeUser.expiresAt = now + 2592000
    /\ "alice" \notin DOMAIN loginAttempts
    /\ "carol" \in DOMAIN loginAttempts

\* the persisted record passes the three checks of auth:verify
RecordValid ==
    /\ storeUser.expiresAt >= now
    /\ storeUser.deviceId = getDeviceFingerprint
    /\ \E u \in users : u.id = storeUser.id

\* C13: auth:verify without an in-memory session and with a persisted
\* record restores the session (identity only) exactly when the record is
\* not expired, carries the current fingerprint and names a user that still
\* exists; otherwise it returns failure, deletes the record and leaves the
\* session absent.
C13_RestoreOnlyValidRecord ==
    [][(activeSession = Null /\ storeUser # Null /\ Verify) =>
          IF RecordValid
          THEN /\ ipcReply'.success
               /\ activeSession' = [userId |-> storeUser.id,
                                    username |-> storeUser.username,
                                    salt |-> storeUser.salt,
                                    masterPassword |-> Undefined]
               /\ storeUser' = storeUser
          ELSE /\ ~ipcReply'.success
               /\ storeUser' = Null
               /\ activeSession' = Null]_vars

C13_Witness ==
    /\ ipcReply # Null
    /\ ipcReply.channel = "auth:verify"
    /\ ~ipcReply.success
    /\ ipcReply.error = "Session expired or user not found"
    /\ users = {}
    /\ storeUser = Null
    /\ activeSession = Null

\* a request-credentials frame on connection 1 reaches handleCredentialRequest
RequestHandled ==
    /\ 1 \in extensionClients
    /\ pairedClients[1].paired
    /\ Admitted(1, 20)
    /\ WsMessage(1, RequestMsg(U_ReqBank))

PersistedFields == {"id", "username", "salt", "expiresAt", "deviceId"}

\* C14 as stated: the persisted record holds no secret, a session restored
\* by auth:verify holds none, and while no master password is cached (as
\* after every restart, until a login or an unlock succeeds) every handled
\* request-credentials is answered with the vault-locked error.
C14_LockedUntilUnlock ==
    [][/\ storeUser' # Null => DOMAIN storeUser' = PersistedFields
       /\ (activeSession = Null /\ activeSession' # Null /\ Verify) =>
              activeSession'.masterPassword = Undefined
       /\ (~Unlocked /\ RequestHandled) =>
              sent'[1] = CredentialsError("Vault locked")]_vars

\* C14, amended: the persisted record holds no secret; a restart leaves no
\* session; a session restored by auth:verify holds no master password; a
\* master password enters the session only with a successful auth:login,
\* auth:verifyMasterPassword or credentials:fetch; and until then every
\* handled request-credentials is answered with the not-authenticated error
\* (no session) or the vault-locked error (session restored), never with
\* credentials.
C14_NoSecretsAfterRestart ==
    [][/\ storeUser' # Null => DOMAIN storeUser' = PersistedFields
       /\ Restart("host-1", TRUE) => activeSession' = Null
       /\ (activeSession = Null /\ activeSession' # Null /\ Verify) =>
              activeSession'.masterPassword = Undefined
       /\ (~Unlocked /\ Unlocked') =>
              /\ ipcReply'.success
              /\ ipcReply'.channel \in {"auth:login", "auth:verifyMasterPassword",
                                        "credentials:fetch"}
       /\ (~Unlocked /\ RequestHandled) =>
              sent'[1] = IF activeSession = Null
                         THEN CredentialsError("Not authenticated")
                         ELSE CredentialsError("Vault locked")]_vars

\* a session restored after a restart (polling not started), asked for the
\* stored credential
C14_Witness ==
    /\ activeSession # Null
    /\ ~Unlocked
    /\ ~syncPollingInterval
    /\ credentials # << >>
    /\ 1 \in DOMAIN sent
    /\ sent[1] = CredentialsError("Vault locked")

\* C15: auth:logout leaves no session and no persisted record; from then
\* on auth:verify returns not-authenticated, every handled
\* request-credentials is answered with the not-authenticated error, and a
\* session appears again only with a successful auth:login.
C15_LogoutEndsSession ==
    [][/\ Logout => activeSession' = Null /\ storeUser' = Null
       /\ (activeSession = Null /\ storeUser = Null /\ Verify) =>
              /\ ipcReply' = [channel |-> "auth:verify", success |-> FALSE,
                              error |-> "Not authenticated"]
              /\ activeSession' = Null
              /\ storeUser' = Null
       /\ (activeSession = Null /\ RequestHandled) =>
              sent'[1] = CredentialsError("Not authenticated")
       /\ (activeSession = Null /\ storeUser = Null /\ activeSession' # Null) =>
              ipcReply'.channel = "auth:login" /\ ipcReply'.success]_vars

C15_Witness ==
    /\ activeSession = Null
    /\ storeUser = Null
    /\ credentials # << >>
    /\ ipcReply = [channel |-> "auth:verify", success |-> FALSE,
                   error |-> "Not authenticated"]
    /\ 1 \in DOMAIN sent
    /\ sent[1] = CredentialsError("Not authenticated")

\* C16: the main window's close clears the master password of the session
\* and changes nothing else (identity, persisted record, polling, gateway
\* and tables stay); in the locked state auth:verify succeeds and leaves
\* session and record as they are, and every handled request-credentials
\* is answered with the vault-locked error.
C16_LockKeepsIdentity ==
    [][/\ WindowClose =>
              /\ activeSession' = IF activeSession = Null THEN Null
                                  ELSE [userId |-> activeSession.userId,
                                        username |-> activeSession.username,
                                        salt |-> activeSession.salt,
                                        masterPassword |-> Undefined]
              /\ UNCHANGED <<now, loginAttempts, storeUser, syncPollingInterval,
                             ipcReply, extensionClients, pairedClients,
                             wsRateLimits, appId, sent, credentials, readyState,
                             hostInfo, users>>
       /\ (activeSession # Null /\ ~Unlocked /\ Verify) =>
              /\ ipcReply'.success
              /\ ipcReply'.userId = activeSession.userId
              /\ UNCHANGED <<activeSession, storeUser>>
       /\ (activeSession # Null /\ ~Unlocked /\ RequestHandled) =>
              sent'[1] = CredentialsError("Vault locked")]_vars

\* a session locked by the window's close (polling still running), asked
\* for the stored credential
C16_Witness ==
    /\ activeSession # Null
    /\ ~Unlocked
    /\ syncPollingInterval
    /\ storeUser # Null
    /\ credentials # << >>
    /\ 1 \in DOMAIN sent
    /\ sent[1] = CredentialsError("Vault locked")

-----------------------------------------------------------------------------
(* Properties of the locked vault and of field encryption (SpecEdit) *)

Locked == activeSession # Null /\ ~Unlocked

\* C17: while a session exists without a cached master password, every
\* credentials:fetch fails with the vault-locked error, every handled
\* request-credentials is answered with the vault-locked error, and an
\* open-in-browser call puts no frame on any connection.
C17_LockedReadsFail ==
    [][Locked =>
          /\ \A mp \in {"pwA", "bad"}, search \in {NoSearch, S_Bank} :
                FetchCredentials(mp, search) =>
                   /\ ~ipcReply'.success
                   /\ ipcReply'.error = "Vault locked"
          /\ RequestHandled => sent'[1] = CredentialsError("Vault locked")
          /\ \A found \in BOOLEAN, id \in 0..MaxCreds :
                OpenInBrowser(U_SiteBank, found, id) => sent' = sent]_vars

\* C18: while a session exists without a cached master password no step
\* changes the credentials table.
C18_NoWriteWhileLocked ==
    [][Locked => credentials' = credentials]_vars

\* C20: every ciphertext that encryptPassword made from a plaintext P under
\* a key K, as stored by credentials:create and credentials:update, is
\* turned back into P by decryptPassword under K.
C20_RoundTrip ==
    \A i \in 1..Len(credentials) :
        LET stored == credentials[i].password IN
        decryptPassword(encryptPassword(stored.plaintext, stored.key), stored.key)
            = [ok |-> TRUE, value |-> stored.plaintext]

-----------------------------------------------------------------------------
(* Properties of recordFailedLogin (SpecBackoff) *)

\* the lockout, in seconds, that the k-th recorded failure sets (k >= 5)
LockoutSeconds(k) ==
    CASE k = 5 -> 300
      [] k = 6 -> 600
      [] k = 7 -> 1200
      [] OTHER -> 1800

\* C19: a call of recordFailedLogin that brings the count of a username to
\* k sets no block when k < 5, and when k >= 5 sets blockedUntil to the time
\* of the call plus 5, 10, 20 and from the 8th failure on 30 minutes, never
\* more than 30 minutes.
C19_ExponentialCappedLockout ==
    [][\A u \in {"alice", "carol"} :
          RecordFailure(u) =>
             LET k == loginAttempts'[u].count IN
             /\ k = IF u \in DOMAIN loginAttempts THEN loginAttempts[u].count + 1 ELSE 1
             /\ k < 5 => loginAttempts'[u].blockedUntil = 0
             /\ k >= 5 =>
                   /\ loginAttempts'[u].blockedUntil = now + LockoutSeconds(k)
                   /\ loginAttempts'[u].blockedUntil - now <= 1800]_vars

C19_Witness ==
    /\ "alice" \in DOMAIN loginAttempts
    /\ loginAttempts["alice"].count = 9
    /\ now > 0
    /\ loginAttempts["alice"].blockedUntil = now + 1800

(***************************************************************************)
(* Properties of the lookup by hostname (SpecMatch)                        *)
(***************************************************************************)
\* a request-credentials frame for url reaches handleCredentialRequest with
\* the vault unlocked
LookupHandled(url) ==
    /\ 1 \in extensionClients
    /\ pairedClients[1].paired
    /\ Admitted(1, 20)
    /\ Unlocked
    /\ WsMessage(1, RequestMsg(url))

\* rows of the session user whose site link has the hostname of url as a
\* substring
SubstringMatches(url) ==
    {i \in 1..Len(credentials) :
        /\ credentials[i].user_id = activeSession.userId
        /\ Includes(credentials[i].site_link, requestHostname(url).hostname)}

NotFound == CredentialsError("No credentials found for this site")

\* C21: a lookup finds a credential exactly when the hostname of the request
\* URL occurs in the site link of a row of the session user: the row
\* https://mail.example.com/login answers example.com/inbox and does not
\* answer notexample.com, and the reply is not-found exactly when no row has
\* the hostname as a substring of its site link.
C21_MatchIsSubstring ==
    [][\A url \in MatchUrls :
          LookupHandled(url) =>
              /\ (sent'[1] = NotFound) <=> (SubstringMatches(url) = {})
              /\ sent'[1] # NotFound =>
                     \E i \in SubstringMatches(url) :
                        /\ sent'[1].username.data = PlainOf(credentials[i].username)
                        /\ sent'[1].password.data = PlainOf(credentials[i].password)
    ]_vars

\* the two examples of C21 on their own: they hold
C21_Examples ==
    [][(/\ \A i \in 1..Len(credentials) : credentials[i].site_link = U_SiteMail
        /\ Len(credentials) > 0)
       => /\ LookupHandled(U_ReqExample) => sent'[1].success
          /\ LookupHandled(U_ReqNotExample) => sent'[1] = NotFound
    ]_vars

\* rows that the query of handleCredentialRequest selects for url
QueryMatches(url) ==
    {i \in 1..Len(credentials) :
        /\ credentials[i].user_id = activeSession.userId
        /\ Like(credentials[i].site_link, requestHostname(url).hostname)}

\* C22: when several rows of the session user match the hostname, the
\* credentials-response carries the username and the password of the row
\* that was created last (rows are appended, so it is the last match in the
\* table), and of no other row.
C22_MostRecentMatch ==
    [][\A url \in MatchUrls :
          (LookupHandled(url) /\ QueryMatches(url) # {}) =>
              LET last == CHOOSE i \in QueryMatches(url) :
                              \A j \in QueryMatches(url) : i >= j
              IN /\ sent'[1].success
                 /\ sent'[1].username.data = PlainOf(credentials[last].username)
                 /\ sent'[1].password.data = PlainOf(credentials[last].password)
    ]_vars

(***************************************************************************)
(* Properties of the scoping by user (SpecScope)                           *)
(***************************************************************************)
\* rows that do not belong to the user of the session (all rows without one)
ForeignRows ==
    {i \in 1..Len(credentials) :
        activeSession = Null \/ credentials[i].user_id # activeSession.userId}

OwnRows == (1..Len(credentials)) \ ForeignRows

\* the frame carries a username and a password
CarriesCredentials(frame) ==
    /\ frame # NoFrame
    /\ frame.type \in {"credentials", "credentials-response"}
    /\ "password" \in DOMAIN frame

\* C23: every read, update and delete of credentials is scoped to the user
\* of the session: a step leaves every row of another user in the table as
\* it was, credentials:fetch returns rows of the session user only, and a
\* frame with a username and a password that a step puts on a connection
\* carries the values of a row of the session user; this also holds after
\* one user logs out and another logs in while the connection stays paired.
C23_ScopedToSessionUser ==
    [][/\ \A i \in ForeignRows :
             \E j \in 1..Len(credentials') : credentials'[j] = credentials[i]
       /\ (/\ ipcReply' # Null
           /\ ipcReply'.channel = "credentials:fetch"
           /\ ipcReply'.success
           /\ UNCHANGED credentials) =>
              \A r \in ipcReply'.credentials :
                 \E i \in OwnRows : /\ credentials[i].id = r.id
                                     /\ r.username = PlainOf(credentials[i].username)
                                     /\ r.password = PlainOf(credentials[i].password)
       /\ \A c \in extensionClients :
             (sent'[c] # sent[c] /\ CarriesCredentials(sent'[c])) =>
                \E i \in OwnRows :
                   /\ sent'[c].username.data = PlainOf(credentials[i].username)
                   /\ sent'[c].password.data = PlainOf(credentials[i].password)
    ]_vars

\* bob's session reads the table that holds a row of alice and a row of
\* bob, and the connection paired before bob logged in has been answered
\* with bob's row
C23_Witness ==
    /\ activeSession # Null /\ activeSession.username = "bob"
    /\ \E i, j \in 1..Len(credentials) :
          credentials[i].user_id = 1 /\ credentials[j].user_id = 2
    /\ ipcReply # Null /\ ipcReply.channel = "credentials:fetch" /\ ipcReply.success
    /\ 1 \in extensionClients /\ pairedClients[1].paired
    /\ CarriesCredentials(sent[1]) /\ sent[1].password.data = "pb"

(***************************************************************************)
(* Properties of the App ID (SpecMigrate, SpecAppId)                       *)
(***************************************************************************)
\* a start of the application
Starts == \E host \in HostInfos : Restart(host, TRUE)

PairFailed == [type |-> "pair-failed"]

\* C24 as stated: a stored App ID of length 12 is replaced at the first
\* getOrCreateAppId call by a 64-character value, which the call returns;
\* from then on every pair frame that carries the 12-character value is
\* answered pair-failed, and only a pair frame that carries the new value
\* is answered pair-success.
C24_LegacyAlwaysPairFailed ==
    [][/\ (idLength(storeAppId) = 12 /\ Starts) =>
             idLength(storeAppId') = 64 /\ appId' = storeAppId'
       /\ \A ws \in extensionClients :
             /\ WsMessage(ws, PairMsg(Legacy12)) => sent'[ws] = PairFailed
             /\ \A code \in AppIdCodes :
                   (WsMessage(ws, PairMsg(code)) /\ sent'[ws].type = "pair-success")
                      => code = storeAppId /\ idLength(code) = 64
    ]_vars

\* C24, amended: a stored App ID of length 12 is replaced at the first
\* getOrCreateAppId call by a 64-character value, which the call returns;
\* from then on no pair frame that carries the 12-character value pairs the
\* connection: it is answered pair-failed when the rate limiter lets it
\* through and with the rate-limit error otherwise, and only a pair frame
\* that carries the new value is answered pair-success.
C24_LegacyNeverPairs ==
    [][/\ (idLength(storeAppId) = 12 /\ Starts) =>
             idLength(storeAppId') = 64 /\ appId' = storeAppId'
       /\ \A ws \in extensionClients :
             /\ WsMessage(ws, PairMsg(Legacy12)) =>
                   /\ pairedClients' = pairedClients
                   /\ IF Admitted(ws, 5)
                      THEN sent'[ws] = PairFailed
                      ELSE sent'[ws].type = "error"
             /\ \A code \in AppIdCodes :
                   (WsMessage(ws, PairMsg(code)) /\ sent'[ws].type = "pair-success")
                      => code = storeAppId /\ idLength(code) = 64
    ]_vars

\* after the migration the connection has sent the 12-character value only,
\* was answered pair-failed until the rate limiter blocked it, and is not
\* paired
C24_Witness ==
    /\ idLength(storeAppId) = 64 /\ appId = storeAppId
    /\ 1 \in extensionClients
    /\ pairHistory[1].codes = {Legacy12}
    /\ ~pairedClients[1].paired
    /\ sent[1] # NoFrame /\ sent[1].type = "error"

\* C25: once a 64-character App ID is stored, every getOrCreateAppId call
\* returns it and does not write the store; the App ID in use and the
\* stored value change at a start only, and only when the stored value is
\* the 12-character one or no valid value is stored.
C25_AppIdStable ==
    [][/\ idLength(storeAppId) = 64 =>
             /\ storeAppId' = storeAppId
             /\ Starts => appId' = storeAppId
             /\ \A fresh \in FreshIds :
                   /\ getOrCreateAppId(storeAppId, fresh).appId = storeAppId
                   /\ ~getOrCreateAppId(storeAppId, fresh).written
       /\ (appId' # appId \/ storeAppId' # storeAppId) =>
             /\ Starts
             /\ appId' = storeAppId'
             /\ idLength(storeAppId') = 64
       /\ (appId # NoAppId /\ appId' # appId) => idLength(storeAppId) # 64
    ]_vars

\* a later run (the first run is on host-1) uses the value that the first
\* start generated and stored, and a connection has paired with it
C25_Witness ==
    /\ hostInfo = "host-2"
    /\ appId = AppId64b /\ storeAppId = AppId64b
    /\ 1 \in extensionClients /\ pairedClients[1].paired
    /\ pairHistory[1].codes = {AppId64b}

(***************************************************************************)
(* Properties of what puts credentials on a connection (SpecEdit)          *)
(***************************************************************************)
\* the step put a frame with a username and a password on connection c
CredentialsSentOn(c) ==
    /\ c \in DOMAIN sent /\ c \in DOMAIN sent'
    /\ sent'[c] # sent[c]
    /\ CarriesCredentials(sent'[c])

PushStep == \E found \in BOOLEAN, id \in 0..MaxCreds : OpenInBrowser(U_SiteBank, found, id)

AuthenticationFailed == "Decryption failed: Wrong password or corrupted data"

\* decrypting the row under key fails, and fails on the tag only
TagFailure(row, key) ==
    LET r == decryptRow(row, key)
    IN /\ ~r.password.ok /\ r.password.error = AuthenticationFailed
       /\ r.username.ok \/ r.username.error = AuthenticationFailed

\* C27: when decryption fails on the authentication tag (wrong key or
\* altered ciphertext), credentials:fetch and the gateway lookup fail with
\* the error that names the authentication failure, distinct from the
\* errors of other causes, and no success reply carries a username or a
\* password other than the stored plaintext.
C27_DecryptFailureDistinct ==
    [][/\ \A mp \in {"pwA", "bad"}, search \in {NoSearch, S_Bank} :
             (/\ activeSession # Null
              /\ OwnRows # {}
              /\ \A i \in OwnRows :
                    TagFailure(credentials[i],
                               deriveEncryptionKey(mp, activeSession.salt))
              /\ FetchCredentials(mp, search)) =>
                 ipcReply' = [channel |-> "credentials:fetch", success |-> FALSE,
                              error |-> AuthenticationFailed]
       /\ (/\ Unlocked
           /\ OwnRows # {}
           /\ \A i \in OwnRows :
                 TagFailure(credentials[i],
                            deriveEncryptionKey(activeSession.masterPassword,
                                                activeSession.salt))
           /\ 1 \in extensionClients
           /\ pairedClients[1].paired
           /\ 1 \notin DOMAIN wsRateLimits
           /\ WsMessage(1, RequestMsg(U_ReqBank))) =>
              sent'[1] = CredentialsError(AuthenticationFailed)
       /\ \A c \in ConnIds :
             CredentialsSentOn(c) =>
                \E i \in OwnRows :
                   /\ sent'[c].username.data = PlainOf(credentials[i].username)
                   /\ sent'[c].password.data = PlainOf(credentials[i].password)
                   /\ sent'[c].password.data # ""
    ]_vars

\* the part of C27 that holds: credentials:fetch names the failure, and no
\* success reply carries anything but the stored plaintext
C27_FetchNamesFailure ==
    [][/\ \A mp \in {"pwA", "bad"}, search \in {NoSearch, S_Bank} :
             (/\ activeSession # Null
              /\ OwnRows # {}
              /\ \A i \in OwnRows :
                    TagFailure(credentials[i],
                               deriveEncryptionKey(mp, activeSession.salt))
              /\ FetchCredentials(mp, search)) =>
                 ipcReply' = [channel |-> "credentials:fetch", success |-> FALSE,
                              error |-> AuthenticationFailed]
       /\ \A c \in ConnIds :
             CredentialsSentOn(c) =>
                \E i \in OwnRows :
                   /\ sent'[c].username.data = PlainOf(credentials[i].username)
                   /\ sent'[c].password.data = PlainOf(credentials[i].password)
                   /\ sent'[c].password.data # ""
    ]_vars

(***************************************************************************)
(* Properties of the order of checks in auth:login (SpecLogin)             *)
(***************************************************************************)
\* C28: auth:login evaluates checkLoginRateLimit before it looks the user
\* up and before verifyPassword: while a username is blocked, a call for it
\* returns the rate-limited error with the seconds left whether or not the
\* user exists and whether or not the password is right, records no
\* failure, and changes neither the session nor the persisted record.
C28_RateLimitBeforeVerify ==
    [][\A u \in {"alice", "carol"}, p \in {"pwA", "bad"} :
          (/\ u \in DOMAIN loginAttempts
           /\ loginAttempts[u].blockedUntil > now
           /\ Login(u, p)) =>
              /\ ipcReply' = RateLimitedReply(u, loginAttempts[u].blockedUntil - now)
              /\ "attemptsRemaining" \notin DOMAIN ipcReply'
              /\ UNCHANGED <<loginAttempts, activeSession, storeUser,
                             syncPollingInterval>>
    ]_vars

\* alice, whose password the calls may carry, is in her second block and
\* the last call for her was turned away; carol, who does not exist, is
\* blocked as well
C28_Witness ==
    /\ "alice" \in DOMAIN loginAttempts
    /\ loginAttempts["alice"].count >= 6
    /\ loginAttempts["alice"].blockedUntil > now
    /\ ipcReply = RateLimitedReply("alice", loginAttempts["alice"].blockedUntil - now)
    /\ "carol" \in DOMAIN loginAttempts
    /\ loginAttempts["carol"].blockedUntil > now

(***************************************************************************)
(* Properties of the end of a block (SpecBlockFair)                        *)
(***************************************************************************)
LoginBlocked(u) ==
    u \in DOMAIN loginAttempts /\ loginAttempts[u].blockedUntil > now

\* C29: every rate-limit block ends.  A login attempt for a blocked
\* username and a pair or request-credentials frame on a blocked connection
\* leave the record as it is (blockedUntil is not extended, the counter is
\* not increased), and as time advances every blocked username and every
\* blocked connection becomes unblocked (for the blocks that end within the
\* time the clock of the model covers).
C29_EveryBlockEnds ==
    /\ [][/\ \A p \in {"pwA", "bad"} :
               (LoginBlocked("alice") /\ Login("alice", p)) =>
                   loginAttempts' = loginAttempts
          /\ \A m \in BlockMessages :
               (1 \in extensionClients /\ IsBlocked(1) /\ WsMessage(1, m)) =>
                   wsRateLimits' = wsRateLimits
       ]_vars
    /\ (LoginBlocked("alice") /\ loginAttempts["alice"].blockedUntil <= MaxTimeBlock)
          ~> ~LoginBlocked("alice")
    /\ (IsBlocked(1) /\ wsRateLimits[1].blockedUntil <= MaxTimeBlock) ~> ~IsBlocked(1)

\* a block of the username and a block of the connection have ended, and
\* the username has been blocked a second time, for longer
C29_Witness ==
    /\ "alice" \in DOMAIN loginAttempts
    /\ loginAttempts["alice"].count = 6
    /\ loginAttempts["alice"].blockedUntil = 900
    /\ now = 900
    /\ 1 \in DOMAIN wsRateLimits
    /\ wsRateLimits[1].blockedUntil # 0
    /\ wsRateLimits[1].blockedUntil <= now

(***************************************************************************)
(* Properties of lookups against lock and logout (SpecSession)             *)
(***************************************************************************)
\* C30: a lookup never sees a half-cleared session.  handleCredentialRequest
\* runs to its end without giving up control, and so do the window's close
\* and auth:logout: a handled request-credentials either comes before the
\* event, with the master password and the salt of the session both in
\* place, and its success reply carries the plaintext stored under the key
\* derived from them, or it comes after the event and is answered
\* vault-locked (after the lock) or not-authenticated (after the logout);
\* the event leaves no master password behind, and no step puts credentials
\* on a connection while the vault is locked or the session is gone.
C30_NoHalfClearedLookup ==
    [][/\ RequestHandled =>
             /\ UNCHANGED <<activeSession, storeUser, credentials>>
             /\ IF activeSession = Null
                THEN sent'[1] = CredentialsError("Not authenticated")
                ELSE IF ~Unlocked
                THEN sent'[1] = CredentialsError("Vault locked")
                ELSE sent'[1].success =>
                        \E i \in OwnRows :
                           /\ credentials[i].password.key =
                                 deriveEncryptionKey(activeSession.masterPassword,
                                                     activeSession.salt)
                           /\ sent'[1].password.data = credentials[i].password.plaintext
                           /\ sent'[1].username.data = PlainOf(credentials[i].username)
       /\ WindowClose => ~Unlocked'
       /\ Logout => activeSession' = Null
       /\ \A c \in ConnIds : CredentialsSentOn(c) => Unlocked
    ]_vars

\* the lookup was answered with the credentials before the window closed:
\* the reply is on the connection and the session is locked
C30_Witness ==
    /\ activeSession # Null
    /\ ~Unlocked
    /\ 1 \in extensionClients /\ pairedClients[1].paired
    /\ sent[1] # NoFrame
    /\ sent[1].type = "credentials-response"
    /\ sent[1].success
    /\ sent[1].password.data = "secret"

(***************************************************************************)
(* Properties of decryptPassword on malformed text (SpecDecrypt)           *)
(***************************************************************************)
\* three non-empty components, a 16-byte iv and a 16-byte tag
WellFormed(parts) ==
    /\ Len(parts) = 3
    /\ \A i \in 1..3 : parts[i] > 0
    /\ parts[1] = 16
    /\ parts[2] = 16

\* C31: decryptPassword rejects a text that does not have exactly three
\* non-empty components with a 16-byte nonce and a 16-byte tag before it
\* attempts decryption, and the error for such a text differs from the
\* error for a tag that does not verify; a well-formed text whose tag
\* verifies is decrypted.
C31_MalformedRejectedFirst ==
    ipcReply.called =>
        LET in == ipcReply.input
            out == ipcReply.result
        IN /\ ~WellFormed(in.parts) =>
                 /\ ~out.ok
                 /\ ~out.attempted
                 /\ out.error # AuthenticationFailed
                 /\ out.error # ""
           /\ (WellFormed(in.parts) /\ ~in.authentic) =>
                 ~out.ok /\ out.attempted /\ out.error = AuthenticationFailed
           /\ (WellFormed(in.parts) /\ in.authentic) => out.ok

\* a text whose nonce is one byte short, with a tag that would not verify,
\* was rejected
C31_Witness ==
    /\ ipcReply.called
    /\ ipcReply.input.parts = <<15, 16, 16>>
    /\ ~ipcReply.input.authentic
    /\ ipcReply.result.error = "Failed to decrypt password"

(***************************************************************************)
(* Properties of the cached master password (SpecEdit)                     *)
(***************************************************************************)
\* the login password of the session's user verifies p
VerifiesForSession(p) ==
    \E u \in users : /\ u.id = activeSession.userId
                     /\ verifyPassword(p, u.salt, u.password_hash)

\* C32: a master password cached in the session is always the correct one
\* for the session's user: no sequence of IPC calls, credentials:fetch with
\* an arbitrary masterPassword on an empty result set included, caches a
\* password that was not verified.
C32_CachedPasswordVerified ==
    Unlocked => VerifiesForSession(activeSession.masterPassword)

(***************************************************************************)
(* Properties of the stored ciphertexts (SpecVault)                        *)
(***************************************************************************)
\* the key derived from the login password and the salt of user row u
RealKey(u) ==
    deriveEncryptionKey(CHOOSE p \in Passwords :
                            verifyPassword(p, u.salt, u.password_hash),
                        u.salt)

\* C33: after any sequence of credential writes, every stored ciphertext
\* decrypts under the key derived from its user's real master password and
\* salt, so that a fetch with the correct master password does not fail on
\* decryption.
C33_RowsDecryptUnderRealKey ==
    \A i \in 1..Len(credentials) :
        \A u \in users :
            u.id = credentials[i].user_id =>
                LET row == decryptRow(credentials[i], RealKey(u))
                IN row.password.ok /\ row.username.ok

(***************************************************************************)
(* Properties of a lookup with an empty hostname (SpecVault)               *)
(***************************************************************************)
\* C34: a request-credentials frame whose URL parses to an empty hostname,
\* such as file:///x, never gets a stored credential: a reply with a
\* username and a password is sent only when the hostname is non-empty and
\* occurs in the site link of a row of the session user.
C34_EmptyHostnameFindsNothing ==
    [][\A url \in RequestUrls :
          (LookupHandled(url) /\ CarriesCredentials(sent'[1])) =>
              /\ requestHostname(url).ok
              /\ requestHostname(url).hostname # << >>
              /\ SubstringMatches(url) # {}
    ]_vars

(***************************************************************************)
(* Properties of the replies to a failed login (SpecLogin)                 *)
(***************************************************************************)
\* what the caller reads in a reply of auth:login
Visible(reply) == [f \in DOMAIN reply \ {"channel", "username"} |-> reply[f]]

\* the rate-limit records of two usernames are the same
SameHistory(u1, u2) ==
    \/ u1 \notin DOMAIN loginAttempts /\ u2 \notin DOMAIN loginAttempts
    \/ /\ u1 \in DOMAIN loginAttempts /\ u2 \in DOMAIN loginAttempts
       /\ loginAttempts[u1] = loginAttempts[u2]

\* C35: for the same rate-limit history, a failed login for a username that
\* does not exist gets the same response (error text and attemptsRemaining)
\* as a failed login with a wrong password for a username that exists.
C35_SameResponse ==
    \A u1 \in Usernames, u2 \in Usernames, p \in Passwords :
        (/\ UserRows(u1) = {}
         /\ UserRows(u2) # {}
         /\ ~CorrectPassword(u2, p)
         /\ SameHistory(u1, u2)) =>
            Visible(loginResponse(loginAttempts, u1, p, now))
                = Visible(loginResponse(loginAttempts, u2, p, now))

(***************************************************************************)
(* Properties of the transport encryption (SpecEdit)                       *)
(***************************************************************************)
\* C36: every successful credentials-response and every pushed credentials
\* frame is encrypted for transport with the session key of the connection
\* it is sent on and is flagged encrypted: a paired connection always holds
\* a session key, so the plaintext branches are never taken.
C36_AlwaysTransportEncrypted ==
    [][\A c \in ConnIds :
          /\ (c \in DOMAIN pairedClients /\ pairedClients[c].paired) =>
                 pairedClients[c].sessionKey # NoKey
          /\ CredentialsSentOn(c) =>
                 /\ sent'[c].encrypted
                 /\ pairedClients[c].paired
                 /\ sent'[c].username = encryptForTransport(sent'[c].username.data,
                                                           pairedClients[c].sessionKey)
                 /\ sent'[c].password = encryptForTransport(sent'[c].password.data,
                                                           pairedClients[c].sessionKey)
    ]_vars

\* the reply to a request was sent on a paired connection, encrypted with
\* the session key of that connection
C36_Witness ==
    /\ 1 \in DOMAIN sent
    /\ CarriesCredentials(sent[1])
    /\ sent[1].type = "credentials-response"
    /\ sent[1].encrypted
    /\ sent[1].password = encryptForTransport("secret", pairedClients[1].sessionKey)

(***************************************************************************)
(* Properties of the password sync (SpecSync)                              *)
(***************************************************************************)
\* C37: a pending password change that a sync poll fetched for one user is
\* never written into the credentials of another user, also when a logout
\* and the login of the other user come while the request of the poll is in
\* flight: the rows that the answer changes belong to the user who sent the
\* request.
C37_ChangeStaysWithPollingUser ==
    [][\A poll \in polls : \A changes \in PendingChanges(poll) :
          PollResponse(poll, changes) =>
              \A i \in 1..Len(credentials) :
                  credentials'[i] # credentials[i] =>
                      credentials[i].user_id = poll.userId
    ]_vars

(***************************************************************************)
(* Properties of the sweep of login attempts (SpecSweep)                   *)
(***************************************************************************)
\* C38: the hourly sweep of login attempts, which drops the records whose
\* first attempt is more than one hour old, never removes a record whose
\* block is still in force: a username that is blocked before the sweep has
\* its record, unchanged, after it.
C38_SweepKeepsBlocks ==
    [][CleanupLoginAttempts =>
          \A u \in DOMAIN loginAttempts :
              LoginBlocked(u) =>
                  /\ u \in DOMAIN loginAttempts'
                  /\ loginAttempts'[u] = loginAttempts[u]
    ]_vars

\* the sweep has removed the record of a username that had been blocked:
\* the last login was refused as blocked, which leaves the record in the
\* map, and the map is empty an hour later
C38_Witness ==
    /\ loginAttempts = << >>
    /\ now > LoginCleanupAge
    /\ ipcReply # Null
    /\ "error" \in DOMAIN ipcReply
    /\ ipcReply.error = "Too many failed login attempts"

-----------------------------------------------------------------------------
(* C39: the key the extension decrypts with *)

\* C39: whenever a credentials payload that the gateway encrypted arrives at
\* the extension, the session key the extension holds is the key the gateway
\* encrypted it with, and the pending credentials are the gateway's plain
\* username and password; this holds after pairing again on one connection
\* and after the extension lost its connection and made a new one
C39_DecryptsWithServerKey ==
    [][ (ExtReceive /\ CarriesCredentials(Head(wire)) /\ Head(wire).encrypted)
        => /\ Head(wire).password.xor = ext.sessionKey
           /\ Head(wire).username.xor = ext.sessionKey
           /\ ext'.pendingCredentials.password = Head(wire).password.data
           /\ ext'.pendingCredentials.username = Head(wire).username.data ]_vars

\* the extension is on a connection whose identifier was closed before, it
\* holds a key later than the first two, and the last frame of that
\* connection, encrypted credentials, has arrived and reads "secret"
C39_Witness ==
    /\ ext.ws # NoSocket
    /\ ext.ws \in everClosed
    /\ ext.ws \in extensionClients
    /\ wire = << >>
    /\ sent[ext.ws] # NoFrame
    /\ CarriesCredentials(sent[ext.ws])
    /\ sent[ext.ws].encrypted
    /\ sent[ext.ws].password.xor = ext.sessionKey
    /\ ext.sessionKey > 2
    /\ ext.isPaired
    /\ ext.pendingCredentials # Null
    /\ ext.pendingCredentials.password = "secret"

-----------------------------------------------------------------------------
(* C40: the pages that are given pending credentials *)

\* page is the host target or a subdomain of it
SameOrSubdomain(page, target) ==
    page = target \/ endsWith(page, <<".">> \o target)

\* C40: every page that the extension has given credentials to has the
\* hostname of the credentials' URL or a subdomain of it as its hostname; a
\* page whose hostname only ends with the same characters is given nothing
C40_OnlySameHostOrSubdomain ==
    \A h \in ext.handed :
        SameOrSubdomain(getHostname(h.page), getHostname(h.url))

====
